---- MODULE Spec2Model ----
(***************************************************************************)
(* A model of the sequence / regular-expression rewriter                   *)
(* (src/ast/rewriter/seq_rewriter.cpp): the operation cache, the length    *)
(* analyzer, the equation reducer, the derivative engine and the sampler.  *)
(*                                                                         *)
(* Terms are tagged tuples <<tag, children...>>; two terms are the same    *)
(* term (pointer equality on hash-consed expressions) iff the tuples are   *)
(* equal.                                                                  *)
(***************************************************************************)
EXTENDS Integers, Sequences, FiniteSets, TLC

\* ------------------------------------------------------------- bounds
\* Largest character code of the (scaled-down) character sort.
MaxChar == 2
\* Size cap of the operation cache (scaled down).
MaxCache == 3
\* Longest word over which languages are compared.
MaxWordLen == 3

VARIABLES
    m_table,    \* op_cache::m_table : (op, a, b, c) -> r
    m_trail,    \* op_cache::m_trail : the pinned terms, in insertion order
    call,       \* the invocation in progress: <<entry point, arguments...>>
    ret,        \* what the invocation returned
    m_lhs,      \* seq_rewriter::m_lhs : atoms of the left side of an equation
    m_rhs,      \* seq_rewriter::m_rhs : atoms of the right side
    new_eqs,    \* the residual equalities produced by reduce_eq
    changed,    \* reduce_eq's "changed" out-parameter
    todo,       \* some_string_in_re: the worklist of re_eval_pos entries
    str,        \* some_string_in_re: the word under construction
    visited     \* some_string_in_re: the marked regexes

vars == <<m_table, m_trail, call, ret, m_lhs, m_rhs, new_eqs, changed, todo, str, visited>>

cacheVars == <<m_table, m_trail>>
eqVars == <<m_lhs, m_rhs, new_eqs, changed>>
sampleVars == <<todo, str, visited>>

\* ------------------------------------------------------------- helpers
NULL == <<"null">>
NoCall == <<"none">>

Min(a, b) == IF a <= b THEN a ELSE b
Max(a, b) == IF a >= b THEN a ELSE b

Chars == 0 .. MaxChar

\* ------------------------------------------------------ operation cache
EmptyTable == [k \in {} |-> NULL]
EmptyCache == [table |-> EmptyTable, trail |-> <<>>]

\* op_cache::find: the cached result, or nullptr
op_cache_find(S, op, a, b, c) ==
    IF <<op, a, b, c>> \in DOMAIN S.table THEN S.table[<<op, a, b, c>>] ELSE NULL

\* op_cache::cleanup with the table cleared but the trail kept (mutant)
op_cache_cleanup_keep_trail(S) ==
    IF Cardinality(DOMAIN S.table) >= MaxCache
    THEN [S EXCEPT !.table = EmptyTable]
    ELSE S

\* op_cache::cleanup: reset-on-overflow of table and trail together
op_cache_cleanup(S) ==
    IF Cardinality(DOMAIN S.table) >= MaxCache
    THEN [S EXCEPT !.table = EmptyTable, !.trail = <<>>]
    ELSE S

\* op_cache::insert: cleanup, pin the non-null terms, store the entry
op_cache_insert(S, op, a, b, c, r) ==
    LET S1 == op_cache_cleanup(S)
        pins == SelectSeq(<<a, b, c, r>>, LAMBDA t : t # NULL)
    IN  [S1 EXCEPT !.table = (<<op, a, b, c>> :> r) @@ S1.table,
                   !.trail = S1.trail \o pins]

TheCache == [table |-> m_table, trail |-> m_trail]

IdleCache == m_table = EmptyTable /\ m_trail = <<>>
IdleEq == m_lhs = <<>> /\ m_rhs = <<>> /\ new_eqs = <<>> /\ changed = FALSE
IdleSample == todo = <<>> /\ str = <<>> /\ visited = {}

\* ----------------------------------------------------------- terms
\* Characters: <<"char", n>> (a value), <<"cvar", name>> (uninterpreted),
\* <<"var", 0>> (the de-Bruijn variable the sampler derives by).
\* Integers: <<"int", n>>, <<"ivar", name>>.
\* Sequences: <<"seq.empty">>, <<"unit", ch>>, <<"str", word>>,
\* <<"seq.concat", a, b>>, <<"ite", c, a, b>>, <<"svar", name>>,
\* <<"at", s, i>>, <<"extract", s, i, l>>, <<"itos", n>>, and the
\* accessors <<"first", s>>, <<"rest", s>>, <<"last", s>>, <<"butlast", s>>.
\* Booleans: <<"true">>, <<"false">>, <<"bvar", name>>, <<"not", c>>,
\* <<"and", a, b>>, <<"or", a, b>>, <<"eq", a, b>>, <<"le", a, b>>,
\* <<"ite", c, a, b>>, <<"len1", s>> (|s| = 1), <<"in_re", s, r>>,
\* <<"select", p, ch>> with p = <<"lambda", body>> over <<"bound">>.
\* Regular expressions: <<"re.empty">>, <<"re.full_seq">>, <<"re.full_char">>,
\* <<"to_re", s>>, <<"re.range", s1, s2>>, <<"re.union", a, b>>,
\* <<"re.antimirov_union", a, b>>, <<"re.inter", a, b>>, <<"re.diff", a, b>>,
\* <<"re.concat", a, b>>, <<"re.comp", a>>, <<"re.star", a>>, <<"re.plus", a>>,
\* <<"re.opt", a>>, <<"re.reverse", a>>, <<"re.loop", a, lo, hi>>,
\* <<"re.loop1", a, lo>> (no upper bound), <<"re.of_pred", p>>,
\* <<"re.derivative", ch, r>> (stuck), <<"rvar", name>>, <<"ite", c, a, b>>.
Tag(t) == t[1]
mk_char(n) == <<"char", n>>
mk_unit(c) == <<"unit", c>>
mk_string(w) == <<"str", w>>
mk_seq_empty == <<"seq.empty">>
mk_true == <<"true">>
mk_false == <<"false">>

is_const_char(c) == Tag(c) = "char"
\* str().is_empty: the empty sequence or the empty string literal
is_seq_empty(s) == Tag(s) = "seq.empty" \/ (Tag(s) = "str" /\ s[2] = <<>>)
\* str().is_string: a string literal (the empty sequence of strings included)
is_string(s) == Tag(s) = "str"
is_unit(s) == Tag(s) = "unit"
\* m().is_value(r) && str().is_unit(r)
is_unit_value(s) == Tag(s) = "unit" /\ is_const_char(s[2])

\* ------------------------------------------------- theory semantics
\* An assignment of the free variables.
ValueAlphabet == {48, 49, 97} \cup (0 .. 0)
WordsOver(A, n) == UNION {[1 .. k -> A] : k \in 0 .. n}

RECURSIVE Decimal(_)
Decimal(n) == IF n < 10 THEN <<48 + n>> ELSE Decimal(n \div 10) \o <<48 + (n % 10)>>

Substr(w, i, l) ==
    IF i < 0 \/ l <= 0 \/ i >= Len(w) THEN <<>>
    ELSE SubSeq(w, i + 1, Min(Len(w), i + l))

EvalInt(t, env) == IF Tag(t) = "int" THEN t[2] ELSE env.i[t[2]]

RECURSIVE EvalSeq(_, _), EvalBool(_, _), EvalChar(_, _), Matches(_, _, _)
EvalChar(c, env) ==
    CASE Tag(c) = "char" -> c[2]
      [] Tag(c) = "cvar" -> env.c[c[2]]
      [] Tag(c) = "var" -> env.e
      [] Tag(c) = "first" -> LET w == EvalSeq(c[2], env) IN IF w = <<>> THEN 0 ELSE w[1]
      [] Tag(c) = "last" -> LET w == EvalSeq(c[2], env) IN IF w = <<>> THEN 0 ELSE w[Len(w)]
      [] Tag(c) = "nth_i" ->
            LET w == EvalSeq(c[2], env)
                i == EvalInt(c[3], env)
            IN  IF 0 <= i /\ i < Len(w) THEN w[i + 1] ELSE 0
      [] Tag(c) = "bound" -> env.bv
      [] Tag(c) = "ite" ->
            IF EvalBool(c[2], env) THEN EvalChar(c[3], env) ELSE EvalChar(c[4], env)

EvalSeq(s, env) ==
    CASE Tag(s) = "seq.empty" -> <<>>
      [] Tag(s) = "unit" -> <<EvalChar(s[2], env)>>
      [] Tag(s) = "str" -> s[2]
      [] Tag(s) = "seq.concat" -> EvalSeq(s[2], env) \o EvalSeq(s[3], env)
      [] Tag(s) = "ite" -> IF EvalBool(s[2], env) THEN EvalSeq(s[3], env) ELSE EvalSeq(s[4], env)
      [] Tag(s) = "svar" -> env.s[s[2]]
      [] Tag(s) = "at" -> Substr(EvalSeq(s[2], env), EvalInt(s[3], env), 1)
      [] Tag(s) = "extract" -> Substr(EvalSeq(s[2], env), EvalInt(s[3], env), EvalInt(s[4], env))
      [] Tag(s) = "itos" -> LET n == EvalInt(s[2], env) IN IF n < 0 THEN <<>> ELSE Decimal(n)
      [] Tag(s) = "rest" -> LET w == EvalSeq(s[2], env) IN IF w = <<>> THEN <<>> ELSE Tail(w)
      [] Tag(s) = "butlast" -> LET w == EvalSeq(s[2], env) IN IF w = <<>> THEN <<>> ELSE SubSeq(w, 1, Len(w) - 1)

\* the sort of a term that is compared by an equality
Sort(t) ==
    IF Tag(t) \in {"char", "cvar", "var", "first", "last", "nth_i", "bound"} THEN "char"
    ELSE IF Tag(t) \in {"int", "ivar"} THEN "int"
    ELSE "seq"

EvalAny(t, env) ==
    CASE Sort(t) = "char" -> EvalChar(t, env)
      [] Sort(t) = "int" -> EvalInt(t, env)
      [] OTHER -> EvalSeq(t, env)

EvalBool(c, env) ==
    CASE Tag(c) = "true" -> TRUE
      [] Tag(c) = "false" -> FALSE
      [] Tag(c) = "bvar" -> env.b[c[2]]
      [] Tag(c) = "not" -> ~EvalBool(c[2], env)
      [] Tag(c) = "and" -> EvalBool(c[2], env) /\ EvalBool(c[3], env)
      [] Tag(c) = "or" -> EvalBool(c[2], env) \/ EvalBool(c[3], env)
      [] Tag(c) = "eq" -> EvalAny(c[2], env) = EvalAny(c[3], env)
      [] Tag(c) = "le" -> EvalChar(c[2], env) <= EvalChar(c[3], env)
      [] Tag(c) = "len1" -> Len(EvalSeq(c[2], env)) = 1
      [] Tag(c) = "ite" -> IF EvalBool(c[2], env) THEN EvalBool(c[3], env) ELSE EvalBool(c[4], env)
      [] Tag(c) = "in_re" -> Matches(EvalSeq(c[2], env), c[3], env)
      [] Tag(c) = "select" -> EvalBool(c[2][2], [env EXCEPT !.bv = EvalChar(c[3], env)])

\* the language of a regular expression: w \in L(r) under the assignment env
Reverse(w) == [j \in 1 .. Len(w) |-> w[Len(w) + 1 - j]]
Prefix(w, k) == SubSeq(w, 1, k)
Suffix(w, k) == SubSeq(w, k + 1, Len(w))

\* w \in L(r{lo,hi}); the loop is empty when hi < lo
RECURSIVE MatchesLoop(_, _, _, _, _)
MatchesLoop(w, r, lo, hi, env) ==
    IF hi < lo THEN FALSE
    ELSE IF hi = 0 THEN w = <<>>
    ELSE \/ lo = 0 /\ w = <<>>
         \/ \E k \in 0 .. Len(w) :
               /\ Matches(Prefix(w, k), r, env)
               /\ MatchesLoop(Suffix(w, k), r, Max(lo - 1, 0), hi - 1, env)

\* w \in L(r{lo,})
RECURSIVE MatchesLoop1(_, _, _, _)
MatchesLoop1(w, r, lo, env) ==
    IF lo = 0 THEN Matches(w, <<"re.star", r>>, env)
    ELSE \E k \in 0 .. Len(w) :
            /\ Matches(Prefix(w, k), r, env)
            /\ MatchesLoop1(Suffix(w, k), r, lo - 1, env)

Matches(w, r, env) ==
    CASE Tag(r) = "re.empty" -> FALSE
      [] Tag(r) = "re.full_seq" -> TRUE
      [] Tag(r) = "re.full_char" -> Len(w) = 1
      [] Tag(r) = "to_re" -> w = EvalSeq(r[2], env)
      [] Tag(r) = "re.range" ->
            LET lo == EvalSeq(r[2], env)
                hi == EvalSeq(r[3], env)
            IN  Len(lo) = 1 /\ Len(hi) = 1 /\ Len(w) = 1 /\ lo[1] <= w[1] /\ w[1] <= hi[1]
      [] Tag(r) \in {"re.union", "re.antimirov_union"} ->
            Matches(w, r[2], env) \/ Matches(w, r[3], env)
      [] Tag(r) = "re.inter" -> Matches(w, r[2], env) /\ Matches(w, r[3], env)
      [] Tag(r) = "re.diff" -> Matches(w, r[2], env) /\ ~Matches(w, r[3], env)
      [] Tag(r) = "re.comp" -> ~Matches(w, r[2], env)
      [] Tag(r) = "re.concat" ->
            \E k \in 0 .. Len(w) :
                Matches(Prefix(w, k), r[2], env) /\ Matches(Suffix(w, k), r[3], env)
      [] Tag(r) = "re.star" ->
            \/ w = <<>>
            \/ \E k \in 1 .. Len(w) :
                  Matches(Prefix(w, k), r[2], env) /\ Matches(Suffix(w, k), r, env)
      [] Tag(r) = "re.plus" -> MatchesLoop1(w, r[2], 1, env)
      [] Tag(r) = "re.opt" -> w = <<>> \/ Matches(w, r[2], env)
      [] Tag(r) = "re.loop" -> MatchesLoop(w, r[2], r[3], r[4], env)
      [] Tag(r) = "re.loop1" -> MatchesLoop1(w, r[2], r[3], env)
      [] Tag(r) = "re.reverse" -> Matches(Reverse(w), r[2], env)
      [] Tag(r) = "re.of_pred" ->
            Len(w) = 1 /\ EvalBool(r[2][2], [env EXCEPT !.bv = w[1]])
      [] Tag(r) = "re.derivative" -> Matches(<<EvalChar(r[2], env)>> \o w, r[3], env)
      [] Tag(r) = "rvar" -> w \in env.r[r[2]]
      [] Tag(r) = "ite" ->
            IF EvalBool(r[2], env) THEN Matches(w, r[3], env) ELSE Matches(w, r[4], env)

\* ------------------------------------------------------ length analyzer
\* the ite case of min_length with the longer branch taken (mutant)
min_length_ite_max(r1, r2) ==
    <<r1[1] /\ r2[1] /\ r1[2] = r2[2], Max(r1[2], r2[2])>>

\* min_length, ite(c, th, el): bounded iff both branches are and agree
min_length_ite(r1, r2) ==
    <<r1[1] /\ r2[1] /\ r1[2] = r2[2], Min(r1[2], r2[2])>>

\* min_length's visit lambda: <<bounded, length>> of a term under an ite
RECURSIVE min_length_visit(_)
min_length_visit(e) ==
    CASE is_unit(e) -> <<TRUE, 1>>
      [] is_seq_empty(e) -> <<TRUE, 0>>
      [] is_string(e) -> <<TRUE, Len(e[2])>>
      [] Tag(e) = "seq.concat" ->
            LET r1 == min_length_visit(e[2])
                r2 == min_length_visit(e[3])
            IN  <<r1[1] /\ r2[1], r1[2] + r2[2]>>
      [] Tag(e) = "ite" -> min_length_ite(min_length_visit(e[3]), min_length_visit(e[4]))
      [] OTHER -> <<FALSE, 0>>

\* min_length(sz, ss): the worklist loop over the stack es, from its back
RECURSIVE min_length_loop(_, _, _)
min_length_loop(es, bounded, len) ==
    IF es = <<>> THEN <<bounded, len>>
    ELSE LET e == es[Len(es)]
             rest == SubSeq(es, 1, Len(es) - 1)
         IN  CASE is_unit(e) -> min_length_loop(rest, bounded, len + 1)
               [] is_seq_empty(e) -> min_length_loop(rest, bounded, len)
               [] is_string(e) -> min_length_loop(rest, bounded, len + Len(e[2]))
               [] Tag(e) = "seq.concat" -> min_length_loop(rest \o <<e[2], e[3]>>, bounded, len)
               [] Tag(e) = "ite" ->
                     LET r == min_length_ite(min_length_visit(e[3]), min_length_visit(e[4]))
                     IN  min_length_loop(rest, bounded /\ r[1], len + r[2])
               [] OTHER -> min_length_loop(rest, FALSE, len)

min_length_vec(es) == min_length_loop(es, TRUE, 0)
min_length(e) == min_length_vec(<<e>>)

\* max_length: <<bounded, length>>; an unsupported atom stops the loop
RECURSIVE max_length_loop(_, _)
max_length_loop(es, len) ==
    IF es = <<>> THEN <<TRUE, len>>
    ELSE LET e == es[Len(es)]
             rest == SubSeq(es, 1, Len(es) - 1)
         IN  CASE is_unit(e) -> max_length_loop(rest, len + 1)
               [] Tag(e) = "at" -> max_length_loop(rest, len + 1)
               [] is_string(e) -> max_length_loop(rest, len + Len(e[2]))
               [] Tag(e) = "extract" /\ Tag(e[4]) = "int" /\ e[4][2] >= 0 ->
                     max_length_loop(rest, len + e[4][2])
               [] is_seq_empty(e) -> max_length_loop(rest, len)
               [] Tag(e) = "seq.concat" -> max_length_loop(rest \o <<e[2], e[3]>>, len)
               [] OTHER -> <<FALSE, len>>

max_length(e) == max_length_loop(<<e>>, 0)

\* --------------------------------------- specification: length analyzer
LenAtoms ==
    { mk_seq_empty, mk_unit(mk_char(97)), mk_unit(<<"cvar", "c">>),
      mk_string(<<>>), mk_string(<<97, 48>>), <<"svar", "x">>,
      <<"at", <<"svar", "x">>, <<"ivar", "n">>>>,
      <<"extract", <<"svar", "x">>, <<"int", 0>>, <<"int", 1>>>>,
      <<"extract", <<"svar", "x">>, <<"ivar", "n">>, <<"int", 2>>>>,
      <<"extract", <<"svar", "x">>, <<"int", 1>>, <<"ivar", "n">>>> }
LenLevel1 ==
    {<<"seq.concat", a, b>> : a \in LenAtoms, b \in LenAtoms}
      \cup {<<"ite", <<"bvar", "p">>, a, b>> : a \in LenAtoms, b \in LenAtoms}
LenLevel2 ==
    {<<"ite", <<"bvar", "q">>, a, b>> :
        a \in {mk_unit(mk_char(97)), mk_string(<<97, 48>>), <<"svar", "x">>}, b \in LenLevel1}
      \cup {<<"seq.concat", b, a>> :
        a \in {mk_unit(mk_char(97)), <<"at", <<"svar", "x">>, <<"ivar", "n">>>>}, b \in LenLevel1}
LenTerms == LenAtoms \cup LenLevel1 \cup LenLevel2

LenEnvs ==
    [s : [{"x"} -> WordsOver({48, 97}, MaxWordLen)], c : [{"c"} -> {48, 97}],
     b : [{"p", "q"} -> BOOLEAN], i : [{"n"} -> -1 .. MaxWordLen], e : {0}]

LenInit ==
    /\ IdleCache /\ IdleEq /\ IdleSample
    /\ \E e \in LenTerms : call = <<"length", e>>
    /\ ret = NULL

MinLength ==
    /\ call[1] = "length"
    /\ call' = <<"min_length", call[2]>>
    /\ ret' = min_length(call[2])
    /\ UNCHANGED <<cacheVars, eqVars, sampleVars>>

MaxLength ==
    /\ call[1] = "length"
    /\ call' = <<"max_length", call[2]>>
    /\ ret' = max_length(call[2])
    /\ UNCHANGED <<cacheVars, eqVars, sampleVars>>

LenNext == MinLength \/ MaxLength

SpecLen == LenInit /\ [][LenNext]_vars

\* C9: under every assignment the length min_length reports is at most the
\* actual length of e, and whenever max_length reports a bound the actual
\* length of e is at most that bound.
C9_LengthSound ==
    /\ call[1] = "min_length" =>
          \A env \in LenEnvs : ret[2] <= Len(EvalSeq(call[2], env))
    /\ call[1] = "max_length" =>
          \A env \in LenEnvs : ret[1] => Len(EvalSeq(call[2], env)) <= ret[2]

\* min_length has answered for an ite whose branches differ in length and
\* max_length for a concatenation with an extract and an at atom
C9_Witness ==
    \/ /\ call[1] = "min_length" /\ Tag(call[2]) = "ite"
       /\ ~ret[1] /\ ret[2] = 1
    \/ /\ call[1] = "max_length" /\ Tag(call[2]) = "seq.concat"
       /\ Tag(call[2][2]) = "extract" /\ Tag(call[2][3]) = "at"
       /\ ret = <<TRUE, 2>>

\* ---------------------------------------------------- equation reducer
Last(es) == es[Len(es)]
Front(es) == SubSeq(es, 1, Len(es) - 1)

\* str().get_concat: the atoms of a concatenation, empty atoms dropped
RECURSIVE get_concat(_)
get_concat(e) ==
    IF Tag(e) = "seq.concat" THEN get_concat(e[2]) \o get_concat(e[3])
    ELSE IF is_seq_empty(e) THEN <<>> ELSE <<e>>

\* str().mk_concat(es, sort): right-nested concatenation of a vector
RECURSIVE mk_concat_vec(_)
mk_concat_vec(es) ==
    IF es = <<>> THEN mk_seq_empty
    ELSE IF Len(es) = 1 THEN es[1]
    ELSE <<"seq.concat", es[1], mk_concat_vec(Tail(es))>>

RECURSIVE FlattenAll(_)
FlattenAll(es) == IF es = <<>> THEN <<>> ELSE get_concat(es[1]) \o FlattenAll(Tail(es))

remove_empty_and_concats(es) ==
    LET has_concat == \E j \in 1 .. Len(es) : Tag(es[j]) = "seq.concat"
        kept == SelectSeq(es, LAMBDA e : ~is_seq_empty(e))
    IN  IF has_concat THEN FlattenAll(kept) ELSE kept

\* m().are_distinct on characters: two different values
are_distinct(a, b) == is_const_char(a) /\ is_const_char(b) /\ a # b
\* m().are_distinct on unit sequences
are_distinct_units(a, b) == is_unit(a) /\ is_unit(b) /\ are_distinct(a[2], b[2])

Stage(ok, ls, rs, eqs) == [ok |-> ok, ls |-> ls, rs |-> rs, eqs |-> eqs]

\* length of the common suffix / prefix test of two literals
SuffixAgree(s1, s2, n) == \A i \in 0 .. n - 1 : s1[Len(s1) - i] = s2[Len(s2) - i]
PrefixAgree(s1, s2, n) == \A i \in 1 .. n : s1[i] = s2[i]

RECURSIVE reduce_back(_, _, _)
reduce_back(ls0, rs0, eqs) ==
    IF ls0 = <<>> \/ rs0 = <<>> THEN Stage(TRUE, ls0, rs0, eqs)
    ELSE
    LET sw == is_unit(Last(rs0)) /\ is_string(Last(ls0))
        ls == IF sw THEN rs0 ELSE ls0
        rs == IF sw THEN ls0 ELSE rs0
        l == Last(ls)
        r == Last(rs)
    IN  IF l = r THEN reduce_back(Front(ls), Front(rs), eqs)
        ELSE IF is_unit(l) /\ is_unit(r) THEN
            IF are_distinct(l[2], r[2]) THEN Stage(FALSE, ls, rs, eqs)
            ELSE reduce_back(Front(ls), Front(rs), Append(eqs, <<l[2], r[2]>>))
        ELSE IF is_unit(l) /\ is_string(r) THEN
            LET w == r[2]
                eqs1 == Append(eqs, <<mk_char(w[Len(w)]), l[2]>>)
            IN  IF Len(w) = 1 THEN reduce_back(Front(ls), Front(rs), eqs1)
                ELSE reduce_back(Front(ls), Append(Front(rs), mk_string(Front(w))), eqs1)
        ELSE IF is_string(l) /\ is_string(r) THEN
            LET s1 == l[2]
                s2 == r[2]
                min_l == Min(Len(s1), Len(s2))
            IN  IF ~SuffixAgree(s1, s2, min_l) THEN Stage(FALSE, ls, rs, eqs)
                ELSE reduce_back(
                        IF min_l < Len(s1)
                            THEN Append(Front(ls), mk_string(SubSeq(s1, 1, Len(s1) - min_l)))
                            ELSE Front(ls),
                        IF min_l < Len(s2)
                            THEN Append(Front(rs), mk_string(SubSeq(s2, 1, Len(s2) - min_l)))
                            ELSE Front(rs),
                        eqs)
        ELSE Stage(TRUE, ls, rs, eqs)

\* reduce_front: ls0 and rs0 are the vectors from head1 and head2 onwards;
\* remove_leading drops what is before the heads at the end
RECURSIVE reduce_front(_, _, _)
reduce_front(ls0, rs0, eqs) ==
    IF ls0 = <<>> \/ rs0 = <<>> THEN Stage(TRUE, ls0, rs0, eqs)
    ELSE
    LET sw == is_unit(Head(rs0)) /\ is_string(Head(ls0))
        ls == IF sw THEN rs0 ELSE ls0
        rs == IF sw THEN ls0 ELSE rs0
        l == Head(ls)
        r == Head(rs)
    IN  IF l = r THEN reduce_front(Tail(ls), Tail(rs), eqs)
        ELSE IF is_unit(l) /\ is_unit(r) THEN
            IF are_distinct(l[2], r[2]) THEN Stage(FALSE, ls, rs, eqs)
            ELSE reduce_front(Tail(ls), Tail(rs), Append(eqs, <<l[2], r[2]>>))
        ELSE IF is_unit(l) /\ is_string(r) THEN
            LET w == r[2]
                eqs1 == Append(eqs, <<mk_char(w[1]), l[2]>>)
            IN  IF Len(w) = 1 THEN reduce_front(Tail(ls), Tail(rs), eqs1)
                ELSE reduce_front(Tail(ls), <<mk_string(Tail(w))>> \o Tail(rs), eqs1)
        ELSE IF is_string(l) /\ is_string(r) THEN
            LET s1 == l[2]
                s2 == r[2]
                min_l == Min(Len(s1), Len(s2))
            IN  IF ~PrefixAgree(s1, s2, min_l) THEN Stage(FALSE, ls, rs, eqs)
                ELSE reduce_front(
                        IF min_l = Len(s1) THEN Tail(ls)
                        ELSE <<mk_string(SubSeq(s1, min_l + 1, Len(s1)))>> \o Tail(ls),
                        IF min_l = Len(s2) THEN Tail(rs)
                        ELSE <<mk_string(SubSeq(s2, min_l + 1, Len(s2)))>> \o Tail(rs),
                        eqs)
        ELSE Stage(TRUE, ls, rs, eqs)

\* is_string(n, es, s): the literal spelled by string and constant-unit atoms
is_string_vec(es) ==
    \A j \in 1 .. Len(es) : is_string(es[j]) \/ is_unit_value(es[j])
RECURSIVE string_of_vec(_)
string_of_vec(es) ==
    IF es = <<>> THEN <<>>
    ELSE (IF is_string(es[1]) THEN es[1][2] ELSE <<es[1][2][2]>>) \o string_of_vec(Tail(es))

RECURSIVE DecimalValue(_)
DecimalValue(w) == IF w = <<>> THEN 0 ELSE 10 * DecimalValue(Front(w)) + (Last(w) - 48)

reduce_itos(ls, rs, eqs) ==
    IF Len(ls) = 1 /\ Tag(ls[1]) = "itos" /\ is_string_vec(rs) THEN
        LET s1 == string_of_vec(rs) IN
        IF \E j \in 1 .. Len(s1) : ~(48 <= s1[j] /\ s1[j] <= 57) THEN Stage(FALSE, ls, rs, eqs)
        ELSE IF Len(s1) > 1 /\ s1[1] = 48 THEN Stage(FALSE, ls, rs, eqs)
        ELSE IF s1 # <<>> THEN
            Stage(TRUE, <<>>, <<>>, Append(eqs, <<ls[1][2], <<"int", DecimalValue(s1)>>>>))
        ELSE Stage(TRUE, ls, rs, eqs)
    ELSE Stage(TRUE, ls, rs, eqs)

\* the remove lambda of reduce_value_clash: the first occurrence of r is
\* overwritten by the last element
RemoveFrom(es, r) ==
    LET i == CHOOSE i \in 1 .. Len(es) : es[i] = r /\ \A k \in 1 .. i - 1 : es[k] # r
    IN  Front([es EXCEPT ![i] = Last(es)])

RECURSIVE value_clash_loop(_, _)
\* <<decided, es>>: decided when some atom of rs is neither in es nor a value
value_clash_loop(es, rs) ==
    IF rs = <<>> THEN <<FALSE, es>>
    ELSE IF \E i \in 1 .. Len(es) : es[i] = rs[1]
        THEN value_clash_loop(RemoveFrom(es, rs[1]), Tail(rs))
    ELSE IF ~is_unit_value(rs[1]) THEN <<TRUE, es>>
    ELSE value_clash_loop(es, Tail(rs))

\* reduce_value_clash without the test that atoms of ls are left (mutant)
reduce_value_clash_no_rest(ls, rs, eqs) ==
    IF ls = <<>> \/ rs = <<>> THEN Stage(TRUE, ls, rs, eqs)
    ELSE LET v == value_clash_loop(ls, rs) IN
         IF v[1] THEN Stage(TRUE, ls, rs, eqs)
         ELSE IF \E j \in 1 .. Len(v[2]) : ~is_unit_value(v[2][j]) THEN Stage(TRUE, ls, rs, eqs)
         ELSE Stage(FALSE, ls, rs, eqs)

\* reduce_value_clash: Stage(ok, ls, rs, eqs)
reduce_value_clash(ls, rs, eqs) ==
    IF ls = <<>> \/ rs = <<>> THEN Stage(TRUE, ls, rs, eqs)
    ELSE LET v == value_clash_loop(ls, rs) IN
         IF v[1] THEN Stage(TRUE, ls, rs, eqs)
         ELSE IF v[2] = <<>> THEN Stage(TRUE, ls, rs, eqs)
         ELSE IF \E j \in 1 .. Len(v[2]) : ~is_unit_value(v[2][j]) THEN Stage(TRUE, ls, rs, eqs)
         ELSE Stage(FALSE, ls, rs, eqs)

has_var(es) == \E j \in 1 .. Len(es) : min_length(es[j])[2] = 0

\* set_empty: <<ok, eqs>>; atoms that may be empty are equated with empty
RECURSIVE set_empty(_, _, _)
set_empty(es, all, eqs) ==
    IF es = <<>> THEN <<TRUE, eqs>>
    ELSE LET ml == min_length(es[1]) IN
         IF ml[2] > 0 THEN (IF all THEN <<FALSE, eqs>> ELSE set_empty(Tail(es), all, eqs))
         ELSE IF ml[1] /\ ml[2] = 0 THEN set_empty(Tail(es), all, eqs)
         ELSE set_empty(Tail(es), all, Append(eqs, <<mk_seq_empty, es[1]>>))

concat_non_empty(es) ==
    mk_concat_vec(SelectSeq(es, LAMBDA e : is_unit(e) \/ is_string(e) \/ Tag(e) = "ite"))

\* the pruning step with the variable atoms left unconstrained (mutant)
reduce_by_length_prune_keep(ls, rs, es, eqs) ==
    Stage(TRUE, <<>>, <<>>, Append(eqs, <<concat_non_empty(ls), concat_non_empty(rs)>>))

\* the pruning step of reduce_by_length, taken on either side: es is the
\* side with variable atoms
reduce_by_length_prune(ls, rs, es, eqs) ==
    LET se == set_empty(es, FALSE, eqs) IN
    IF ~se[1] THEN Stage(FALSE, ls, rs, se[2])
    ELSE Stage(TRUE, <<>>, <<>>,
               Append(se[2], <<concat_non_empty(ls), concat_non_empty(rs)>>))

\* the length comparison without the bounded flags (mutant)
length_clash_unbounded(m1, m2) == m1[2] < m2[2] \/ m2[2] < m1[2]

\* a side of exact length shorter than the least length of the other
length_clash(m1, m2) == (m1[1] /\ m1[2] < m2[2]) \/ (m2[1] /\ m2[2] < m1[2])

reduce_by_length(ls, rs, eqs) ==
    IF ls = <<>> /\ rs = <<>> THEN Stage(TRUE, ls, rs, eqs)
    ELSE
    LET m1 == min_length_vec(ls)
        m2 == min_length_vec(rs)
    IN  IF length_clash(m1, m2) THEN Stage(FALSE, ls, rs, eqs)
        ELSE IF m1[1] /\ m1[2] = m2[2] /\ m1[2] > 0 /\ has_var(rs)
            THEN reduce_by_length_prune(ls, rs, rs, eqs)
        ELSE IF m2[1] /\ m1[2] = m2[2] /\ m1[2] > 0 /\ has_var(ls)
            THEN reduce_by_length_prune(ls, rs, ls, eqs)
        ELSE Stage(TRUE, ls, rs, eqs)

\* the matching loop of reduce_subsequence: <<all matched, rpos>>
RECURSIVE subsequence_match(_, _, _)
subsequence_match(ls, rs, rpos) ==
    IF ls = <<>> THEN <<TRUE, rpos>>
    ELSE
    LET x == ls[1]
        ok(j) == j \notin rpos /\ (x = rs[j] \/ (is_unit(x) /\ is_unit(rs[j])))
    IN  IF \E j \in 1 .. Len(rs) : ok(j)
        THEN LET j == CHOOSE j \in 1 .. Len(rs) : ok(j) /\ \A k \in 1 .. j - 1 : ~ok(k)
             IN  subsequence_match(Tail(ls), rs, rpos \cup {j})
        ELSE <<FALSE, rpos>>

\* the second loop: unmatched atoms of rs must be empty; <<ok, kept, eqs>>
RECURSIVE subsequence_filter(_, _, _, _, _)
subsequence_filter(rs, i, rpos, kept, eqs) ==
    IF i > Len(rs) THEN <<TRUE, kept, eqs>>
    ELSE IF i \in rpos THEN subsequence_filter(rs, i + 1, rpos, Append(kept, rs[i]), eqs)
    ELSE LET se == set_empty(<<rs[i]>>, TRUE, eqs) IN
         IF ~se[1] THEN <<FALSE, kept, se[2]>>
         ELSE subsequence_filter(rs, i + 1, rpos, kept, se[2])

reduce_subsequence(ls0, rs0, eqs) ==
    LET sw == Len(ls0) > Len(rs0)
        ls == IF sw THEN rs0 ELSE ls0
        rs == IF sw THEN ls0 ELSE rs0
    IN  IF Len(ls) = Len(rs) THEN Stage(TRUE, ls, rs, eqs)
        ELSE IF ls = <<>> /\ Len(rs) = 1 THEN Stage(TRUE, ls, rs, eqs)
        ELSE
        LET mt == subsequence_match(ls, rs, {}) IN
        IF ~mt[1] THEN Stage(TRUE, ls, rs, eqs)
        ELSE
        LET f == subsequence_filter(rs, 1, mt[2], <<>>, eqs) IN
        IF ~f[1] THEN Stage(FALSE, ls, rs, f[3])
        ELSE IF Len(f[2]) = Len(rs) THEN Stage(TRUE, ls, rs, f[3])
        ELSE IF ls # <<>>
            THEN Stage(TRUE, <<>>, <<>>, Append(f[3], <<mk_concat_vec(ls), mk_concat_vec(f[2])>>))
        ELSE Stage(TRUE, ls, f[2], f[3])

\* the can_overlap lambda of non_overlap on unit vectors (0-based indices)
RECURSIVE can_overlap(_, _, _, _, _)
can_overlap(p1, p2, i, end1, start2) ==
    IF i >= end1 THEN TRUE
    ELSE IF are_distinct_units(p1[i + 1], p2[start2 + i + 1]) THEN FALSE
    ELSE IF p1[i + 1] # p2[start2 + i + 1] THEN TRUE
    ELSE can_overlap(p1, p2, i + 1, end1, start2)

\* the can_overlap lambda of non_overlap on literals
can_overlap_str(s1, s2, start1, end1, start2) ==
    \A i \in start1 .. end1 - 1 : s1[i + 1] = s2[start2 + i + 1]

non_overlap_str_ordered(s1, s2) ==
    LET sz1 == Len(s1)
        sz2 == Len(s2)
    IN  /\ \A i \in 1 .. sz1 - 1 : ~can_overlap_str(s1, s2, i, sz1, 0)
        /\ \A j \in 0 .. sz2 - sz1 - 1 : ~can_overlap_str(s1, s2, 0, sz1, j)
        /\ \A j \in sz2 - sz1 .. sz2 - 1 : ~can_overlap_str(s1, s2, 0, sz2 - j, j)

non_overlap_str(s1, s2) ==
    IF Len(s1) > Len(s2) THEN non_overlap_str_ordered(s2, s1) ELSE non_overlap_str_ordered(s1, s2)

non_overlap_ordered(p1, p2) ==
    LET sz1 == Len(p1)
        sz2 == Len(p2)
    IN  IF sz1 = 0 \/ sz2 = 0 THEN FALSE
        ELSE IF sz1 = 1 /\ sz2 = 1 /\ is_string(p1[1]) /\ is_string(p2[1])
            THEN non_overlap_str(p1[1][2], p2[1][2])
        ELSE IF \E j \in 1 .. sz1 : ~is_unit(p1[j]) THEN FALSE
        ELSE IF \E j \in 1 .. sz2 : ~is_unit(p2[j]) THEN FALSE
        ELSE /\ \A i \in 1 .. sz1 - 1 : ~can_overlap(p1, p2, i, sz1, 0)
             /\ \A j \in 0 .. sz2 - sz1 - 1 : ~can_overlap(p1, p2, 0, sz1, j)
             /\ \A j \in sz2 - sz1 .. sz2 - 1 : ~can_overlap(p1, p2, 0, sz2 - j, j)

non_overlap(p1, p2) ==
    IF Len(p1) > Len(p2) THEN non_overlap_ordered(p2, p1) ELSE non_overlap_ordered(p1, p2)

\* the maximal runs of unit atoms of ls
RECURSIVE unit_runs(_, _)
unit_runs(ls, pattern) ==
    IF ls = <<>> THEN (IF pattern = <<>> THEN {} ELSE {pattern})
    ELSE IF is_unit(ls[1]) THEN unit_runs(Tail(ls), Append(pattern, ls[1]))
    ELSE (IF pattern = <<>> THEN {} ELSE {pattern}) \cup unit_runs(Tail(ls), <<>>)

reduce_non_overlap(ls, rs, eqs) ==
    IF \E j \in 1 .. Len(rs) : ~is_unit(rs[j]) THEN Stage(TRUE, ls, rs, eqs)
    ELSE IF \E pattern \in unit_runs(ls, <<>>) : non_overlap(pattern, rs)
        THEN Stage(FALSE, ls, rs, eqs)
    ELSE Stage(TRUE, ls, rs, eqs)

add_seqs(ls, rs, eqs) ==
    IF ls # <<>> \/ rs # <<>> THEN Append(eqs, <<mk_concat_vec(ls), mk_concat_vec(rs)>>) ELSE eqs

\* ------------------------------------------- specification: reducer
\* the free variables of a term, by kind
RECURSIVE VarsOf(_, _)
VarsOf(t, k) ==
    IF Tag(t) = k THEN {t[2]}
    ELSE IF Tag(t) \in {"char", "int", "str", "seq.empty", "true", "false",
                        "svar", "cvar", "ivar", "bvar", "var", "rvar", "bound",
                        "re.empty", "re.full_seq", "re.full_char"} THEN {}
    ELSE IF Tag(t) \in {"re.loop", "re.loop1"} THEN VarsOf(t[2], k)
    ELSE UNION {VarsOf(t[j], k) : j \in 2 .. Len(t)}

MaxVarLen == 2
EqWords == WordsOver({97, 98}, MaxVarLen)
EqChars == {48, 97, 98}
EqInts == {-1, 0, 10}
\* the assignments of the variables of the terms ts
EnvsOf(ts) ==
    [s : [UNION {VarsOf(t, "svar") : t \in ts} -> EqWords],
     c : [UNION {VarsOf(t, "cvar") : t \in ts} -> EqChars],
     i : [UNION {VarsOf(t, "ivar") : t \in ts} -> EqInts],
     b : [UNION {VarsOf(t, "bvar") : t \in ts} -> BOOLEAN],
     e : {0}, bv : {0}]

EqHolds(eq, env) == EvalAny(eq[1], env) = EvalAny(eq[2], env)
EqsHold(eqs, env) == \A j \in 1 .. Len(eqs) : EqHolds(eqs[j], env)

ua == mk_unit(mk_char(97))
ub == mk_unit(mk_char(98))
uc == mk_unit(<<"cvar", "c">>)
sx == <<"svar", "x">>
sy == <<"svar", "y">>
itos_n == <<"itos", <<"ivar", "n">>>>
ite_p == <<"ite", <<"bvar", "p">>, mk_string(<<97>>), mk_string(<<98>>)>>

MaxSide == 2
\* sides over the atoms 'a', x, y
PlainSides == {mk_concat_vec(w) : w \in WordsOver({ua, sx, sy}, MaxSide)}
\* sides that reach the later stages of the pipeline
OtherSides ==
    { mk_seq_empty, mk_string(<<>>), uc, mk_string(<<97, 98>>), mk_string(<<49, 48>>),
      mk_string(<<48, 49>>), itos_n, ite_p, sx,
      mk_concat_vec(<<mk_unit(mk_char(49)), mk_unit(mk_char(48))>>),
      mk_concat_vec(<<sx, ua, sy>>), mk_concat_vec(<<sx, uc, sy>>),
      mk_concat_vec(<<sx, sy>>), mk_concat_vec(<<sy, sx, sx>>),
      mk_concat_vec(<<sy, sx, ua>>),
      mk_concat_vec(<<sx, ua, ua, sy>>), mk_concat_vec(<<ub, ub, ub>>),
      mk_concat_vec(<<sx, ua, ub, sy>>), mk_concat_vec(<<ua, ub, ua>>),
      mk_concat_vec(<<mk_string(<<97, 98>>), sx>>),
      mk_concat_vec(<<sy, mk_string(<<98>>)>>),
      <<"seq.concat", <<"seq.concat", sx, mk_seq_empty>>, <<"seq.concat", ub, sx>>>>,
      mk_concat_vec(<<sx, ua>>), mk_concat_vec(<<ite_p, sx>>),
      mk_concat_vec(<<ua, sx>>), mk_concat_vec(<<sy, ub>>), mk_concat_vec(<<ub, sx>>),
      ua, ub, mk_concat_vec(<<ub, sy, ua>>) }
EqPairs == (PlainSides \X PlainSides) \cup (OtherSides \X OtherSides)

Position == call[4]

EqInit ==
    /\ IdleCache /\ IdleSample
    /\ IdleEq
    /\ \E p \in EqPairs : call = <<"reduce_eq", p[1], p[2], "entry">>
    /\ ret = NULL

\* one stage of the && chain of reduce_eq: a stage that fails ends the call
RunStage(from, to, S) ==
    /\ call[1] = "reduce_eq" /\ Position = from
    /\ m_lhs' = S.ls /\ m_rhs' = S.rs /\ new_eqs' = S.eqs
    /\ call' = <<"reduce_eq", call[2], call[3], IF S.ok THEN to ELSE "refuted">>
    /\ ret' = IF S.ok THEN ret ELSE <<"false">>
    /\ UNCHANGED <<changed, cacheVars, sampleVars>>

ReduceEqEntry ==
    RunStage("entry", "back",
             Stage(TRUE, remove_empty_and_concats(get_concat(call[2])),
                   remove_empty_and_concats(get_concat(call[3])), new_eqs))
ReduceBack == RunStage("back", "front", reduce_back(m_lhs, m_rhs, new_eqs))
ReduceFront == RunStage("front", "itos", reduce_front(m_lhs, m_rhs, new_eqs))
ReduceItos == RunStage("itos", "itos_r", reduce_itos(m_lhs, m_rhs, new_eqs))
ReduceItosSwapped ==
    LET S == reduce_itos(m_rhs, m_lhs, new_eqs)
    IN  RunStage("itos_r", "value_clash", Stage(S.ok, S.rs, S.ls, S.eqs))
ReduceValueClash ==
    RunStage("value_clash", "by_length", reduce_value_clash(m_lhs, m_rhs, new_eqs))
ReduceByLength ==
    RunStage("by_length", "subsequence", reduce_by_length(m_lhs, m_rhs, new_eqs))
ReduceSubsequence ==
    RunStage("subsequence", "non_overlap", reduce_subsequence(m_lhs, m_rhs, new_eqs))
ReduceNonOverlap ==
    RunStage("non_overlap", "non_overlap_r", reduce_non_overlap(m_lhs, m_rhs, new_eqs))
ReduceNonOverlapSwapped ==
    LET S == reduce_non_overlap(m_rhs, m_lhs, new_eqs)
    IN  RunStage("non_overlap_r", "exit", Stage(S.ok, S.rs, S.ls, S.eqs))

\* the end of both reduce_eq overloads. The vectors are compared by hash:
\* equal vectors always agree, different vectors may collide.
ReduceEqExit(collide) ==
    /\ call[1] = "reduce_eq" /\ Position = "exit"
    /\ LET same == m_lhs = get_concat(call[2]) /\ m_rhs = get_concat(call[3])
           change == (~same /\ ~collide) \/ new_eqs # <<>>
       IN  /\ new_eqs' = IF ~change THEN Append(new_eqs, <<call[2], call[3]>>)
                         ELSE add_seqs(m_lhs, m_rhs, new_eqs)
           /\ changed' = (changed \/ change)
           /\ call' = <<"reduce_eq", call[2], call[3], "done", change>>
    /\ ret' = <<"true">>
    /\ UNCHANGED <<m_lhs, m_rhs, cacheVars, sampleVars>>

EqNext ==
    \/ ReduceEqEntry
    \/ ReduceBack
    \/ ReduceFront
    \/ ReduceItos
    \/ ReduceItosSwapped
    \/ ReduceValueClash
    \/ ReduceByLength
    \/ ReduceSubsequence
    \/ ReduceNonOverlap
    \/ ReduceNonOverlapSwapped
    \/ \E collide \in BOOLEAN : ReduceEqExit(collide)

SpecEq == EqInit /\ [][EqNext]_vars

\* the equation a.x = y.b of the pipeline example
EqAxYb == <<mk_concat_vec(<<ua, sx>>), mk_concat_vec(<<sy, ub>>)>>

\* C3: reduce_eq returns false only for an equation without solution, and
\* no stage refutes concat(unit('a'), x) = concat(y, unit('b')).
C3_RefuteSound ==
    (call[1] = "reduce_eq" /\ Position = "refuted") =>
        /\ \A env \in EnvsOf({call[2], call[3]}) : ~EqHolds(<<call[2], call[3]>>, env)
        /\ <<call[2], call[3]>> # EqAxYb

\* the pipeline has run to its end on a.x = y.b, and has refuted x.a.a.y = b.b.b
C3_Witness ==
    /\ call[1] = "reduce_eq"
    /\ \/ Position = "done" /\ <<call[2], call[3]>> = EqAxYb
       \/ Position = "refuted" /\ Len(m_lhs) = 4 /\ Len(m_rhs) = 3

\* C4: when reduce_eq returns true the equalities in new_eqs hold under
\* exactly the assignments under which l = r holds.
\* The same holds after every stage for new_eqs together with what is left
\* in m_lhs and m_rhs.
C4_Equivalent ==
    /\ (call[1] = "reduce_eq" /\ Position = "done") =>
        \A env \in EnvsOf({call[2], call[3]}) :
            EqHolds(<<call[2], call[3]>>, env) <=> EqsHold(new_eqs, env)
    /\ (call[1] = "reduce_eq" /\ Position \notin {"entry", "done", "refuted"}) =>
        \A env \in EnvsOf({call[2], call[3]}) :
            EqHolds(<<call[2], call[3]>>, env)
               <=> /\ EqsHold(new_eqs, env)
                   /\ EqHolds(<<mk_concat_vec(m_lhs), mk_concat_vec(m_rhs)>>, env)

\* a call that changed the equation: variable atoms were set to empty
C4_Witness ==
    /\ call[1] = "reduce_eq" /\ Position = "done" /\ call[5]
    /\ \E j \in 1 .. Len(new_eqs) : new_eqs[j][1] = mk_seq_empty /\ Tag(new_eqs[j][2]) = "svar"
    /\ Len(new_eqs) >= 3

\* ------------------------------------------------- regex constructors
re_empty == <<"re.empty">>
re_full_seq == <<"re.full_seq">>
re_full_char == <<"re.full_char">>
mk_to_re(s) == <<"to_re", s>>
re_epsilon == mk_to_re(mk_seq_empty)
re_dot_plus == <<"re.plus", re_full_char>>
mk_re_star(r) == <<"re.star", r>>
mk_re_comp(r) == <<"re.comp", r>>
mk_ite(c, a, b) == <<"ite", c, a, b>>
mk_not(c) == <<"not", c>>
mk_and(a, b) == <<"and", a, b>>
mk_eq(a, b) == <<"eq", a, b>>

re_is_empty(r) == Tag(r) = "re.empty"
re_is_full_seq(r) == Tag(r) = "re.full_seq"
re_is_full_char(r) == Tag(r) = "re.full_char"
re_is_epsilon(r) == Tag(r) = "to_re" /\ is_seq_empty(r[2])
re_is_dot_plus(r) == Tag(r) = "re.plus" /\ re_is_full_char(r[2])
is_ite(r) == Tag(r) = "ite"
is_true(c) == Tag(c) = "true"
is_false(c) == Tag(c) = "false"
\* u().is_char_le(e, a, b)
is_char_le(c) == Tag(c) = "le"

\* the result of a call together with the cache it leaves behind
Ret(t, S) == [r |-> t, s |-> S]

\* m_op_cache.insert(op, a, b, c, result) at the end of a cached function:
\* the result res.r, entered into the cache res.s the computation left behind
cache_result(res, op, a, b, c) ==
    Ret(res.r, op_cache_insert(res.s, op, a, b, c, res.r))

\* ------------------------------------------------------- term ids
\* The interned term's numeric id, as a stable function of the term: the
\* prefix serialisation of the term, ordered by length and then
\* lexicographically (a sub-term is smaller than the term it occurs in).
TagList ==
    << "null", "char", "cvar", "var", "first", "last", "nth_i", "bound", "int", "ivar",
       "seq.empty", "unit", "str", "seq.concat", "ite", "svar", "at", "extract", "itos",
       "rest", "butlast", "true", "false", "bvar", "not", "and", "or", "eq", "le", "len1",
       "in_re", "select", "lambda", "re.empty", "re.full_seq", "re.full_char", "to_re",
       "re.range", "re.union", "re.antimirov_union", "re.inter", "re.diff", "re.concat",
       "re.comp", "re.star", "re.plus", "re.opt", "re.reverse", "re.loop", "re.loop1",
       "re.of_pred", "re.derivative", "rvar" >>
TagCode(tag) == CHOOSE j \in 1 .. Len(TagList) : TagList[j] = tag
NameList == <<"x", "y", "c", "d", "p", "q", "n", "R">>
NameCode(n) == CHOOSE j \in 1 .. Len(NameList) : NameList[j] = n

RECURSIVE stable_id(_)
stable_id(t) ==
    LET code == TagCode(Tag(t))
    IN  CASE Tag(t) \in {"char", "var", "int"} -> <<code, t[2]>>
          [] Tag(t) \in {"cvar", "svar", "ivar", "bvar", "rvar"} -> <<code, NameCode(t[2])>>
          [] Tag(t) = "str" -> <<code, Len(t[2])>> \o t[2]
          [] Tag(t) = "re.loop" -> <<code>> \o stable_id(t[2]) \o <<t[3], t[4]>>
          [] Tag(t) = "re.loop1" -> <<code>> \o stable_id(t[2]) \o <<t[3]>>
          [] Len(t) = 1 -> <<code>>
          [] Len(t) = 2 -> <<code>> \o stable_id(t[2])
          [] Len(t) = 3 -> <<code>> \o stable_id(t[2]) \o stable_id(t[3])
          [] OTHER -> <<code>> \o stable_id(t[2]) \o stable_id(t[3]) \o stable_id(t[4])

\* xid < yid
id_lt(u, v) ==
    \/ Len(u) < Len(v)
    \/ /\ Len(u) = Len(v)
       /\ \E j \in 1 .. Len(u) :
             /\ \A l \in 1 .. j - 1 : u[l] = v[l]
             /\ u[j] < v[j]

\* ------------------------------------------- host term constructors
\* m_br: the Boolean rewriter's constant folding
m_br_mk_not(a) ==
    CASE is_true(a) -> mk_false
      [] is_false(a) -> mk_true
      [] Tag(a) = "not" -> a[2]
      [] OTHER -> mk_not(a)

m_br_mk_and(a, b) ==
    CASE is_false(a) \/ is_false(b) -> mk_false
      [] is_true(a) -> b
      [] is_true(b) -> a
      [] a = b -> a
      [] a = mk_not(b) \/ b = mk_not(a) -> mk_false
      [] OTHER -> mk_and(a, b)

m_br_mk_or(a, b) ==
    CASE is_true(a) \/ is_true(b) -> mk_true
      [] is_false(a) -> b
      [] is_false(b) -> a
      [] a = b -> a
      [] a = mk_not(b) \/ b = mk_not(a) -> mk_true
      [] OTHER -> <<"or", a, b>>

m_br_mk_ite(c, t, e) ==
    CASE is_true(c) -> t
      [] is_false(c) -> e
      [] t = e -> t
      [] is_true(t) /\ is_false(e) -> c
      [] is_false(t) /\ is_true(e) -> m_br_mk_not(c)
      [] OTHER -> mk_ite(c, t, e)

\* u().max_char(), scaled down
max_char == MaxChar

\* u().mk_le on characters
mk_le(a, b) ==
    CASE a = b -> mk_true
      [] is_const_char(a) /\ is_const_char(b) -> IF a[2] <= b[2] THEN mk_true ELSE mk_false
      [] is_const_char(a) /\ a[2] = 0 -> mk_true
      [] is_const_char(b) /\ b[2] = max_char -> mk_true
      [] OTHER -> <<"le", a, b>>

\* re().mk_ite_simplify
mk_ite_simplify(c, t, e) ==
    IF is_true(c) \/ t = e THEN t
    ELSE IF is_false(c) THEN e
    ELSE mk_ite(c, t, e)

\* re().mk_loop_proper
mk_loop_proper(r, lo, hi) ==
    IF lo = 0 /\ hi = 0 THEN re_epsilon
    ELSE IF lo = 1 /\ hi = 1 THEN r
    ELSE <<"re.loop", r, lo, hi>>

\* str().is_unit_string(s, c): a one-character literal or a unit
is_unit_string(s) == (is_string(s) /\ Len(s[2]) = 1) \/ is_unit(s)
unit_string_char(s) == IF is_string(s) THEN mk_char(s[2][1]) ELSE s[2]

\* re().get_info(r): [known, nullable in {"true", "false", "undef"}, min_length]
UINT_MAX == 1000000
info(n, l) == [known |-> TRUE, nullable |-> n, min_length |-> l]
unknown_info == [known |-> FALSE, nullable |-> "undef", min_length |-> 0]

RECURSIVE str_min_length(_)
str_min_length(s) ==
    CASE is_seq_empty(s) -> 0
      [] is_unit(s) -> 1
      [] is_string(s) -> Len(s[2])
      [] Tag(s) = "seq.concat" -> str_min_length(s[2]) + str_min_length(s[3])
      [] Tag(s) = "ite" -> Min(str_min_length(s[3]), str_min_length(s[4]))
      [] OTHER -> 0

RECURSIVE get_info(_)
get_info(r) ==
    CASE Tag(r) = "re.empty" -> info("false", UINT_MAX)
      [] Tag(r) = "re.full_seq" -> info("true", 0)
      [] Tag(r) \in {"re.star", "re.opt"} ->
            IF get_info(r[2]).known THEN info("true", 0) ELSE unknown_info
      [] Tag(r) \in {"re.range", "re.full_char", "re.of_pred"} -> info("false", 1)
      [] Tag(r) = "re.concat" ->
            LET i1 == get_info(r[2])
                i2 == get_info(r[3])
            IN  IF i1.known /\ i2.known
                THEN info(IF i1.nullable = "false" \/ i2.nullable = "false" THEN "false"
                          ELSE IF i1.nullable = "true" /\ i2.nullable = "true" THEN "true"
                          ELSE "undef",
                          Min(UINT_MAX, i1.min_length + i2.min_length))
                ELSE unknown_info
      [] Tag(r) = "re.union" ->
            LET i1 == get_info(r[2])
                i2 == get_info(r[3])
            IN  IF i1.known /\ i2.known
                THEN info(IF i1.nullable = "true" \/ i2.nullable = "true" THEN "true"
                          ELSE IF i1.nullable = "undef" \/ i2.nullable = "undef" THEN "undef"
                          ELSE "false",
                          Min(i1.min_length, i2.min_length))
                ELSE unknown_info
      [] Tag(r) = "re.inter" ->
            LET i1 == get_info(r[2])
                i2 == get_info(r[3])
            IN  IF i1.known /\ i2.known
                THEN info(IF i1.nullable = "true" /\ i2.nullable = "true" THEN "true"
                          ELSE IF i1.nullable = "false" \/ i2.nullable = "false" THEN "false"
                          ELSE "undef",
                          Max(i1.min_length, i2.min_length))
                ELSE unknown_info
      [] Tag(r) = "re.diff" ->
            LET i1 == get_info(r[2])
                i2 == get_info(r[3])
            IN  IF i1.known /\ i2.known
                THEN info(IF i1.nullable = "true" /\ i2.nullable = "false" THEN "true"
                          ELSE IF i1.nullable = "false" \/ i2.nullable = "true" THEN "false"
                          ELSE "undef",
                          i1.min_length)
                ELSE unknown_info
      [] Tag(r) = "to_re" ->
            LET l == str_min_length(r[2])
                is_value == is_string(r[2]) \/ is_seq_empty(r[2]) \/ is_unit_value(r[2])
            IN  info(IF is_value /\ l = 0 THEN "true" ELSE IF l > 0 THEN "false" ELSE "undef", l)
      [] Tag(r) \in {"re.reverse", "re.plus"} -> get_info(r[2])
      [] Tag(r) = "re.comp" ->
            LET i1 == get_info(r[2])
                n == IF i1.nullable = "true" THEN "false"
                     ELSE IF i1.nullable = "false" THEN "true" ELSE "undef"
            IN  IF i1.known THEN info(n, IF n = "false" THEN 1 ELSE 0) ELSE unknown_info
      [] Tag(r) \in {"re.loop", "re.loop1"} ->
            LET i1 == get_info(r[2])
            IN  IF i1.known
                THEN info(IF r[3] = 0 THEN "true" ELSE i1.nullable,
                          Min(UINT_MAX, i1.min_length * r[3]))
                ELSE unknown_info
      [] Tag(r) = "ite" ->
            LET i1 == get_info(r[3])
                i2 == get_info(r[4])
            IN  IF i1.known /\ i2.known
                THEN info(IF i1.nullable = i2.nullable THEN i1.nullable ELSE "undef",
                          Min(i1.min_length, i2.min_length))
                ELSE unknown_info
      [] OTHER -> unknown_info

\* ------------------------------------------------------ nullability
\* The cache as the derivative engine sees it: table and trail, the order in
\* which the build evaluates the two argument calls of one expression
\* (rtl: right to left), and a schedule of cache clearings: the cache is
\* cleared before every period-th cached call (period 0: never).
EngineCache(table, trail, rtl, period) ==
    [table |-> table, trail |-> trail, rtl |-> rtl, period |-> period, fuel |-> period]
FreshCache == EngineCache(EmptyTable, <<>>, FALSE, 0)

\* the point between two sub-calls
between_calls(S) ==
    IF S.period = 0 THEN S
    ELSE IF S.fuel <= 1
         THEN [S EXCEPT !.table = EmptyTable, !.trail = <<>>, !.fuel = S.period]
         ELSE [S EXCEPT !.fuel = S.fuel - 1]

\* f(F(x), F(y)): both argument calls, in the order the build evaluates them
EvalBoth(S, F(_, _), x, y) ==
    IF S.rtl
    THEN LET ry == F(S, y)
             rx == F(ry.s, x)
         IN  [a |-> rx.r, b |-> ry.r, s |-> rx.s]
    ELSE LET rx == F(S, x)
             ry == F(rx.s, y)
         IN  [a |-> rx.r, b |-> ry.r, s |-> ry.s]

\* is_nullable_symbolic_regex
RECURSIVE derivative_elems(_, _)
derivative_elems(r, elems) ==
    IF Tag(r) = "re.derivative"
    THEN derivative_elems(r[3], IF is_seq_empty(elems) THEN mk_unit(r[2])
                                ELSE <<"seq.concat", mk_unit(r[2]), elems>>)
    ELSE <<r, elems>>

is_nullable_symbolic_regex(r) ==
    LET d == derivative_elems(r, mk_seq_empty)
    IN  IF Tag(d[1]) = "to_re" THEN mk_eq(d[2], d[1][2])
        ELSE <<"in_re", mk_seq_empty, r>>

RECURSIVE is_nullable(_, _), is_nullable_rec(_, _)
is_nullable(S, r) ==
    LET S0 == between_calls(S)
        hit == op_cache_find(S0, "_OP_RE_IS_NULLABLE", r, NULL, NULL)
    IN  IF hit # NULL THEN Ret(hit, S0)
        ELSE cache_result(is_nullable_rec(S0, r), "_OP_RE_IS_NULLABLE", r, NULL, NULL)

is_nullable_rec(S, r) ==
    CASE Tag(r) \in {"re.concat", "re.inter"} ->
            LET n == EvalBoth(S, is_nullable, r[2], r[3])
            IN  Ret(m_br_mk_and(n.a, n.b), n.s)
      [] Tag(r) \in {"re.union", "re.antimirov_union"} ->
            LET n == EvalBoth(S, is_nullable, r[2], r[3])
            IN  Ret(m_br_mk_or(n.a, n.b), n.s)
      [] Tag(r) = "re.diff" ->
            LET n2 == is_nullable(S, r[3])
                n1 == is_nullable(n2.s, r[2])
            IN  Ret(m_br_mk_and(m_br_mk_not(n2.r), n1.r), n1.s)
      [] \/ Tag(r) \in {"re.star", "re.opt", "re.full_seq"}
         \/ re_is_epsilon(r)
         \/ (Tag(r) \in {"re.loop", "re.loop1"} /\ r[3] = 0) -> Ret(mk_true, S)
      [] Tag(r) \in {"re.full_char", "re.empty", "re.of_pred", "re.range"} -> Ret(mk_false, S)
      [] \/ Tag(r) \in {"re.plus", "re.reverse"}
         \/ (Tag(r) \in {"re.loop", "re.loop1"} /\ r[3] > 0) -> is_nullable(S, r[2])
      [] Tag(r) = "re.comp" ->
            LET n1 == is_nullable(S, r[2])
            IN  Ret(m_br_mk_not(n1.r), n1.s)
      [] Tag(r) = "to_re" /\ ~re_is_epsilon(r) -> is_nullable(S, r[2])
      [] Tag(r) = "ite" ->
            LET n == EvalBoth(S, is_nullable, r[3], r[4])
            IN  Ret(m_br_mk_ite(r[2], n.a, n.b), n.s)
      [] Tag(r) \in {"re.derivative", "rvar"} -> Ret(is_nullable_symbolic_regex(r), S)
      [] Tag(r) = "seq.concat" ->
            LET n == EvalBoth(S, is_nullable, r[2], r[3])
            IN  Ret(m_br_mk_and(n.a, n.b), n.s)
      [] Tag(r) = "seq.empty" -> Ret(mk_true, S)
      [] Tag(r) = "unit" -> Ret(mk_false, S)
      [] Tag(r) = "str" -> Ret(IF Len(r[2]) = 0 THEN mk_true ELSE mk_false, S)
      [] OTHER -> Ret(mk_eq(mk_seq_empty, r), S)

\* ------------------------------------------ specification: nullability
\* the assignments of the variables of the regexes ts
RegexWords == WordsOver({0, 1}, MaxVarLen)
RegexLangs == {{}, {<<>>}, {<<0>>}, {<<>>, <<0>>}}
RegexEnvs(ts) ==
    [s : [UNION {VarsOf(t, "svar") : t \in ts} -> RegexWords],
     c : [UNION {VarsOf(t, "cvar") : t \in ts} -> Chars],
     b : [UNION {VarsOf(t, "bvar") : t \in ts} -> BOOLEAN],
     r : [UNION {VarsOf(t, "rvar") : t \in ts} -> RegexLangs],
     e : Chars, bv : {0}]

lit_a == mk_to_re(mk_string(<<0>>))
lit_b == mk_to_re(mk_string(<<1>>))
range_ab == <<"re.range", mk_string(<<0>>), mk_string(<<1>>)>>
pred_le1 == <<"re.of_pred", <<"lambda", <<"le", <<"bound">>, mk_char(1)>>>>>>
MaxLoop == 2
NullAtoms ==
    { re_empty, re_epsilon, re_full_char, re_full_seq, lit_a, mk_to_re(mk_string(<<>>)),
      mk_to_re(sx), mk_to_re(mk_unit(<<"cvar", "c">>)), range_ab, pred_le1,
      <<"rvar", "R">>, <<"re.derivative", mk_char(0), mk_to_re(sx)>>,
      mk_to_re(<<"seq.concat", sx, sy>>) }
NullUnary(A) ==
    {<<op, a>> : op \in {"re.star", "re.plus", "re.opt", "re.comp", "re.reverse"}, a \in A}
      \cup {<<"re.loop1", a, lo>> : a \in A, lo \in 0 .. MaxLoop}
      \cup {<<"re.loop", a, lo, hi>> : a \in A, lo \in 0 .. MaxLoop, hi \in 0 .. MaxLoop}
NullBinary(A, B) ==
    {<<op, a, b>> : op \in {"re.union", "re.antimirov_union", "re.inter", "re.diff",
                            "re.concat"}, a \in A, b \in B}
      \cup {mk_ite(<<"bvar", "p">>, a, b) : a \in A, b \in B}
NullTerms ==
    NullAtoms \cup NullUnary(NullAtoms) \cup NullBinary(NullAtoms, NullAtoms)
      \cup NullBinary(NullUnary({mk_re_star(lit_a), lit_a}), {lit_b, re_epsilon})

NullInit ==
    /\ IdleCache /\ IdleEq /\ IdleSample
    /\ \E r \in NullTerms : call = <<"is_nullable", r>>
    /\ ret = NULL

IsNullable ==
    /\ call[1] = "is_nullable"
    /\ LET res == is_nullable(EngineCache(m_table, m_trail, FALSE, 0), call[2])
       IN  /\ ret' = res.r
           /\ m_table' = res.s.table
           /\ m_trail' = res.s.trail
    /\ call' = <<"is_nullable.done", call[2]>>
    /\ UNCHANGED <<eqVars, sampleVars>>

NullNext == IsNullable
SpecNullable == NullInit /\ [][NullNext]_vars

\* C2: the formula returned by is_nullable(R) is true exactly when the empty
\* word is in L(R), under every assignment of the free variables, loop nodes
\* with every combination of bounds included.
C2_NullableExact ==
    call[1] = "is_nullable.done" =>
        \A env \in RegexEnvs({call[2]}) :
            EvalBool(ret, env) = Matches(<<>>, call[2], env)

\* the same, for the regexes without a loop whose upper bound is below its lower bound
RECURSIVE has_improper_loop(_)
has_improper_loop(t) ==
    IF Tag(t) = "re.loop" THEN t[4] < t[3] \/ has_improper_loop(t[2])
    ELSE IF Tag(t) = "re.loop1" THEN has_improper_loop(t[2])
    ELSE IF Tag(t) \in {"char", "int", "str", "seq.empty", "true", "false", "svar", "cvar",
                        "ivar", "bvar", "var", "rvar", "bound", "re.empty", "re.full_seq",
                        "re.full_char"} THEN FALSE
    ELSE \E j \in 2 .. Len(t) : has_improper_loop(t[j])

C2_ProperLoops ==
    (call[1] = "is_nullable.done" /\ ~has_improper_loop(call[2])) =>
        \A env \in RegexEnvs({call[2]}) :
            EvalBool(ret, env) = Matches(<<>>, call[2], env)

\* ------------------------------------------------- path conditions
\* m().mk_and(conds) for a vector: a right-nested conjunction
RECURSIVE mk_and_vec(_)
mk_and_vec(cs) ==
    IF Len(cs) = 0 THEN mk_true
    ELSE IF Len(cs) = 1 THEN cs[1]
    ELSE mk_and(cs[1], mk_and_vec(Tail(cs)))

RECURSIVE conjuncts(_)
conjuncts(c) ==
    CASE Tag(c) = "and" -> conjuncts(c[2]) \o conjuncts(c[3])
      [] Tag(c) = "not" /\ Tag(c[2]) = "not" -> conjuncts(c[2][2])
      [] Tag(c) = "not" /\ Tag(c[2]) = "or" ->
            conjuncts(mk_not(c[2][2])) \o conjuncts(mk_not(c[2][3]))
      [] is_true(c) \/ (Tag(c) = "not" /\ is_false(c[2])) -> <<>>
      [] OTHER -> <<c>>

RECURSIVE remove_duplicates(_)
remove_duplicates(cs) ==
    IF cs = <<>> THEN <<>>
    ELSE LET front == remove_duplicates(Front(cs))
         IN  IF \E j \in 1 .. Len(front) : front[j] = Last(cs) THEN front
             ELSE Append(front, Last(cs))

\* flatten_and: the conjuncts of cond, without true and without repetitions;
\* a false conjunct absorbs the others
flatten_and(cond) ==
    LET cs == conjuncts(cond)
    IN  IF \E j \in 1 .. Len(cs) : is_false(cs[j]) \/ (Tag(cs[j]) = "not" /\ is_true(cs[j][2]))
        THEN <<mk_false>>
        ELSE remove_duplicates(cs)

\* u().is_char_const_range(x, e, l, u, negated)
is_char_const_range(x, e) ==
    LET negated == Tag(e) = "not"
        e1 == IF negated THEN e[2] ELSE e
        no == [ok |-> FALSE, l |-> 0, u |-> 0, negated |-> negated]
        yes(l, u) == [ok |-> TRUE, l |-> l, u |-> u, negated |-> negated]
        le_x_c(c) == is_char_le(c) /\ c[2] = x /\ is_const_char(c[3])
        le_c_x(c) == is_char_le(c) /\ c[3] = x /\ is_const_char(c[2])
    IN  IF Tag(e1) = "eq" /\ e1[2] = x /\ is_const_char(e1[3]) THEN yes(e1[3][2], e1[3][2])
        ELSE IF le_x_c(e1) THEN yes(0, e1[3][2])
        ELSE IF le_c_x(e1) THEN yes(e1[2][2], max_char)
        ELSE IF Tag(e1) = "and" /\ le_c_x(e1[2]) /\ le_x_c(e1[3])
             THEN yes(e1[2][2][2], e1[3][3][2])
        ELSE IF Tag(e1) = "and" /\ le_x_c(e1[2]) /\ le_c_x(e1[3])
             THEN yes(e1[3][2][2], e1[2][3][2])
        ELSE no

\* intersect(lo, hi, ranges): the loop stops at the first range above hi
RECURSIVE intersect(_, _, _)
intersect(lo, hi, ranges) ==
    IF ranges = <<>> \/ hi < ranges[1][1] THEN <<>>
    ELSE LET rest == intersect(lo, hi, Tail(ranges))
         IN  IF ranges[1][2] >= lo
             THEN <<<<Max(ranges[1][1], lo), Min(ranges[1][2], hi)>>>> \o rest
             ELSE rest

\* exclude_range that keeps only the part below the excluded range (mutant)
exclude_range_low_only(lower, upper, ranges) ==
    IF lower = 0
    THEN IF upper = max_char THEN <<>> ELSE intersect(upper + 1, max_char, ranges)
    ELSE intersect(0, lower - 1, ranges)

\* elim_condition's exclude_range lambda
exclude_range(lower, upper, ranges) ==
    IF lower = 0
    THEN IF upper = max_char THEN <<>> ELSE intersect(upper + 1, max_char, ranges)
    ELSE IF upper = max_char THEN intersect(0, lower - 1, ranges)
    ELSE intersect(0, lower - 1, ranges) \o intersect(upper + 1, max_char, ranges)

is_const_le(e) == is_char_le(e) /\ is_const_char(e[2]) /\ is_const_char(e[3])
is_const_eq(e) == Tag(e) = "eq" /\ is_const_char(e[2]) /\ is_const_char(e[3])
trivially_true(e) ==
    \/ is_true(e)
    \/ (Tag(e) = "eq" /\ e[2] = e[3])
    \/ (Tag(e) = "not" /\ is_const_eq(e[2]) /\ e[2][2][2] # e[2][3][2])
    \/ (is_const_le(e) /\ e[2][2] <= e[3][2])
    \/ (Tag(e) = "not" /\ is_const_le(e[2]) /\ e[2][2][2] > e[2][3][2])
trivially_false(e) ==
    \/ is_false(e)
    \/ (Tag(e) = "not" /\ Tag(e[2]) = "eq" /\ e[2][2] = e[2][3])
    \/ (is_const_le(e) /\ e[2][2] > e[3][2])
    \/ (Tag(e) = "not" /\ is_const_le(e[2]) /\ e[2][2][2] <= e[2][3][2])

\* elim_condition's loop over the conjuncts, from conjunct j on
RECURSIVE elim_scan(_, _, _, _, _)
elim_scan(elem, conds, j, ranges, conds_range) ==
    IF j > Len(conds)
    THEN [all_ranges |-> TRUE, ranges |-> ranges, conds_range |-> conds_range]
    ELSE LET next(rs, crs) ==
                 IF rs = <<>>
                 THEN [all_ranges |-> TRUE, ranges |-> rs, conds_range |-> crs]
                 ELSE elim_scan(elem, conds, j + 1, rs, crs)
             \* the conjunct e, with cr its reading as a range of characters
             conjunct(e, cr) ==
                 IF cr.ok
                 THEN IF cr.l > cr.u /\ cr.negated
                      THEN elim_scan(elem, conds, j + 1, ranges, conds_range)
                      ELSE next(IF cr.l > cr.u THEN <<>>
                                ELSE IF cr.negated THEN exclude_range(cr.l, cr.u, ranges)
                                ELSE intersect(cr.l, cr.u, ranges),
                                Append(conds_range, e))
                 ELSE IF trivially_true(e)
                 THEN elim_scan(elem, conds, j + 1, ranges, conds_range)
                 ELSE IF trivially_false(e) THEN next(<<>>, conds_range)
                 ELSE [all_ranges |-> FALSE, ranges |-> ranges, conds_range |-> conds_range]
         IN  conjunct(conds[j], is_char_const_range(elem, conds[j]))

\* expr_safe_replace: v for every occurrence of x in t
RECURSIVE safe_replace(_, _, _)
safe_replace(t, x, v) ==
    IF t = x THEN v
    ELSE IF Tag(t) \in {"char", "int", "str", "seq.empty", "true", "false", "svar", "cvar",
                        "ivar", "bvar", "var", "rvar", "bound", "re.empty", "re.full_seq",
                        "re.full_char"} THEN t
    ELSE IF Tag(t) = "re.loop" THEN <<"re.loop", safe_replace(t[2], x, v), t[3], t[4]>>
    ELSE IF Tag(t) = "re.loop1" THEN <<"re.loop1", safe_replace(t[2], x, v), t[3]>>
    ELSE IF Len(t) = 2 THEN <<t[1], safe_replace(t[2], x, v)>>
    ELSE IF Len(t) = 3 THEN <<t[1], safe_replace(t[2], x, v), safe_replace(t[3], x, v)>>
    ELSE <<t[1], safe_replace(t[2], x, v), safe_replace(t[3], x, v), safe_replace(t[4], x, v)>>

is_uninterp_const(e) == Tag(e) = "cvar"

\* the first conjunct elem = rhs or lhs = elem, as <<rhs>>; <<>> if there is none
RECURSIVE find_solution(_, _)
find_solution(elem, conds) ==
    IF conds = <<>> THEN <<>>
    ELSE LET e == conds[1]
         IN  IF Tag(e) = "eq" /\ e[3] = elem THEN <<e[2]>>
             ELSE IF Tag(e) = "eq" /\ e[2] = elem THEN <<e[3]>>
             ELSE find_solution(elem, Tail(conds))

\* elim_condition(elem, cond): the simplified cond
elim_condition(elem, cond) ==
    LET \* the rewriting, once the conjuncts are scanned: all_ranges says that
        \* every conjunct is a range of elem, conds are the conjuncts kept
        rewrite(all_ranges, ranges, conds, solution) ==
            IF all_ranges /\ ranges = <<>> THEN mk_false
            ELSE IF all_ranges /\ is_uninterp_const(elem) THEN mk_true
            ELSE IF solution # <<>>
            THEN IF ~is_uninterp_const(elem)
                 THEN mk_and(mk_eq(elem, solution[1]), safe_replace(cond, elem, solution[1]))
                 ELSE safe_replace(cond, elem, solution[1])
            ELSE IF all_ranges THEN mk_and_vec(conds)
            ELSE cond
        kept(all_ranges, ranges, conds) ==
            rewrite(all_ranges, ranges, conds, find_solution(elem, conds))
        scanned(conds0, scan) ==
            IF Sort(elem) = "char" /\ scan.all_ranges
            THEN kept(TRUE, scan.ranges, scan.conds_range)
            ELSE kept(FALSE, scan.ranges, conds0)
        flattened(conds0) ==
            scanned(conds0, elim_scan(elem, conds0, 1, <<<<0, max_char>>>>, <<>>))
    IN  flattened(flatten_and(cond))

simplify_path(elem, path) == elim_condition(elem, path)

\* ------------------------------------------------ sequence helpers
\* seq_rewriter::m_coalesce_chars (the parameter's default)
m_coalesce_chars == TRUE

\* mk_seq_concat(a, b): one step of the concat rewrite, str().mk_concat if it fails
mk_seq_concat(a, b) ==
    LET isc1 == is_string(a) /\ m_coalesce_chars
        isc2 == is_string(b) /\ m_coalesce_chars
    IN  IF isc1 /\ isc2 THEN mk_string(a[2] \o b[2])
        ELSE IF Tag(a) = "seq.concat" THEN <<"seq.concat", a[2], <<"seq.concat", a[3], b>>>>
        ELSE IF is_seq_empty(a) THEN b
        ELSE IF is_seq_empty(b) THEN a
        ELSE IF isc1 /\ Tag(b) = "seq.concat" /\ is_string(b[2])
             THEN <<"seq.concat", mk_string(a[2] \o b[2][2]), b[3]>>
        ELSE <<"seq.concat", a, b>>

\* mk_seq_first, mk_seq_rest, mk_seq_last, mk_seq_butlast for a term t that is
\* not an extract: nth(t, 0), substr(t, 1, |t| - 1), nth(t, |t| - 1),
\* substr(t, 0, |t| - 1)
mk_seq_first(t) == <<"first", t>>
mk_seq_rest(t) == <<"rest", t>>
mk_seq_last(t) == <<"last", t>>
mk_seq_butlast(t) == <<"butlast", t>>

\* get_head_tail(s): <<found, head, tail>>
RECURSIVE get_head_tail(_)
get_head_tail(s) ==
    IF is_unit(s) THEN <<TRUE, s[2], mk_seq_empty>>
    ELSE IF is_string(s) /\ Len(s[2]) > 0
    THEN <<TRUE, mk_char(s[2][1]), mk_string(Tail(s[2]))>>
    ELSE IF Tag(s) = "seq.concat"
    THEN LET ht == get_head_tail(s[2])
         IN  IF ht[1] THEN <<TRUE, ht[2], mk_seq_concat(ht[3], s[3])>>
             ELSE <<FALSE, NULL, NULL>>
    ELSE <<FALSE, NULL, NULL>>

lt_char(ch1, ch2) == is_const_char(ch1) /\ is_const_char(ch2) /\ ch1[2] < ch2[2]
eq_char(ch1, ch2) == ch1 = ch2
neq_char(ch1, ch2) == is_const_char(ch1) /\ is_const_char(ch2) /\ ch1[2] # ch2[2]
le_char(ch1, ch2) == eq_char(ch1, ch2) \/ lt_char(ch1, ch2)

\* ------------------------------------------------- regex rewrites
\* lift_str_from_to_re: <<lifted, s>>
RECURSIVE lift_str_from_to_re(_)
lift_str_from_to_re(r) ==
    IF Tag(r) = "to_re" THEN <<TRUE, r[2]>>
    ELSE IF is_ite(r)
    THEN LET th == lift_str_from_to_re(r[3])
             el == lift_str_from_to_re(r[4])
         IN  IF th[1] /\ el[1] THEN <<TRUE, mk_ite(r[2], th[2], el[2])>>
             ELSE <<FALSE, NULL>>
    ELSE <<FALSE, NULL>>

\* mk_re_concat, one round of its loop over the rules for loops: <<fired, result>>
mk_re_concat_loops(a, b) ==
    IF Tag(a) = "re.loop1" /\ Tag(b) = "re.loop" /\ b[3] <= b[4] /\ a[2] = b[2]
    THEN <<TRUE, <<"re.loop1", a[2], a[3] + b[3]>>>>
    ELSE IF Tag(a) = "re.loop" /\ Tag(b) = "re.star" /\ a[2] = b[2]
    THEN <<TRUE, <<"re.loop1", a[2], a[3]>>>>
    ELSE IF Tag(a) = "re.loop1" /\ Tag(b) = "re.star" /\ a[2] = b[2]
    THEN <<TRUE, a>>
    ELSE IF Tag(a) = "re.loop" /\ a[3] <= a[4] /\ a[2] = b
    THEN <<TRUE, <<"re.loop", a[2], a[3] + 1, a[4] + 1>>>>
    ELSE <<FALSE, NULL>>

\* mk_re_concat(a, b): <<status, result>>
mk_re_concat(a, b) ==
    LET a_str == lift_str_from_to_re(a)
        b_str == lift_str_from_to_re(b)
        round1 == mk_re_concat_loops(a, b)
        round2 == mk_re_concat_loops(b, a)
    IN  IF re_is_full_seq(a) /\ re_is_full_seq(b) THEN <<"BR_DONE", a>>
        ELSE IF re_is_empty(a) THEN <<"BR_DONE", a>>
        ELSE IF re_is_empty(b) THEN <<"BR_DONE", b>>
        ELSE IF re_is_epsilon(a) THEN <<"BR_DONE", b>>
        ELSE IF re_is_epsilon(b) THEN <<"BR_DONE", a>>
        ELSE IF re_is_full_char(a) /\ re_is_full_seq(b) THEN <<"BR_DONE", <<"re.plus", a>>>>
        ELSE IF re_is_full_char(b) /\ re_is_full_seq(a) THEN <<"BR_DONE", <<"re.plus", b>>>>
        ELSE IF a_str[1] /\ b_str[1]
        THEN <<"BR_REWRITE2", mk_to_re(<<"seq.concat", a_str[2], b_str[2]>>)>>
        ELSE IF Tag(a) = "re.star" /\ Tag(b) = "re.star" /\ a[2] = b[2] THEN <<"BR_DONE", a>>
        ELSE IF Tag(a) = "re.star" /\ a[2] = b THEN <<"BR_DONE", <<"re.concat", b, a>>>>
        ELSE IF Tag(a) = "re.loop" /\ a[3] <= a[4] /\ Tag(b) = "re.loop" /\ b[3] <= b[4]
                /\ a[2] = b[2]
        THEN <<"BR_DONE", mk_loop_proper(a[2], a[3] + b[3], a[4] + b[4])>>
        ELSE IF Tag(a) = "re.loop1" /\ Tag(b) = "re.loop1" /\ a[2] = b[2]
        THEN <<"BR_DONE", <<"re.loop1", a[2], a[3] + b[3]>>>>
        ELSE IF round1[1] THEN <<"BR_DONE", round1[2]>>
        ELSE IF round2[1] THEN <<"BR_DONE", round2[2]>>
        ELSE <<"BR_FAILED", NULL>>

\* mk_re_append: mk_re_concat, re().mk_concat if it fails
mk_re_append(r, s) ==
    LET res == mk_re_concat(r, s)
    IN  IF res[1] = "BR_FAILED" THEN <<"re.concat", r, s>> ELSE res[2]

are_complements(r1, r2) ==
    \/ (Tag(r1) = "re.comp" /\ r1[2] = r2)
    \/ (Tag(r2) = "re.comp" /\ r2[2] = r1)

\* is_subset's local is_concat: r = a . (b . c)
is_concat3(r) == Tag(r) = "re.concat" /\ Tag(r[3]) = "re.concat"

\* is_subset: the loop of the basic subset checker
RECURSIVE is_subset_loop(_, _)
is_subset_loop(r1, r2) ==
    IF r1 = r2 THEN TRUE
    ELSE IF re_is_full_seq(r2) THEN TRUE
    ELSE IF re_is_dot_plus(r2) /\ get_info(r1).nullable = "false" THEN TRUE
    ELSE IF is_concat3(r1) /\ is_concat3(r2) /\ r1[2] = r2[2] /\ r1[3][2] = r2[3][2]
    THEN is_subset_loop(r1[3][3], r2[3][3])
    ELSE IF Tag(r1) = "re.concat" /\ Tag(r2) = "re.concat" /\ re_is_full_seq(r2[2])
    THEN is_subset_loop(r1[3], r2)
    ELSE IF /\ Tag(r1) = "re.concat" /\ Tag(r1[2]) = "re.loop"
            /\ Tag(r2) = "re.concat" /\ Tag(r2[2]) = "re.loop"
            /\ r1[2][2] = r2[2][2] /\ r2[2][3] <= r1[2][3] /\ r1[2][4] <= r2[2][4]
    THEN is_subset_loop(r1[3], r2[3])
    ELSE /\ Tag(r1) = "re.loop" /\ Tag(r2) = "re.loop"
         /\ r1[2] = r2[2] /\ r2[3] <= r1[3] /\ r1[4] <= r2[4]

\* is_subset with the complements compared in the same direction (mutant)
is_subset_same_way(r1, r2) ==
    IF Tag(r1) = "re.comp" /\ Tag(r2) = "re.comp" THEN is_subset_loop(r1[2], r2[2])
    ELSE is_subset_loop(r1, r2)

RECURSIVE is_subset(_, _)
is_subset(r1, r2) ==
    IF Tag(r1) = "re.comp" /\ Tag(r2) = "re.comp" THEN is_subset(r2[2], r1[2])
    ELSE is_subset_loop(r1, r2)

\* merge_regex_sets' compare lambda: 0, -1 (x < y) or 1 (y < x)
merge_id(x) == IF Tag(x) = "re.comp" THEN stable_id(x[2]) ELSE stable_id(x)
\* compare on the ids of the terms themselves, complements not folded (mutant)
compare_unfolded(x, y) ==
    IF x = y THEN 0
    ELSE IF id_lt(stable_id(x), stable_id(y)) THEN -1 ELSE 1

compare(x, y) ==
    IF x = y THEN 0
    ELSE IF id_lt(merge_id(x), merge_id(y)) THEN -1 ELSE 1

\* the compose functions of mk_regex_union_normalize and mk_regex_inter_normalize
compose(kind, r1, r2) ==
    IF kind = "re.union"
    THEN IF is_subset(r1, r2) THEN r2
         ELSE IF is_subset(r2, r1) THEN r1 ELSE <<"re.union", r1, r2>>
    ELSE IF is_subset(r1, r2) THEN r1
         ELSE IF is_subset(r2, r1) THEN r2 ELSE <<"re.inter", r1, r2>>

\* merge_regex_sets' composeresult lambda
RECURSIVE composeresult(_, _, _)
composeresult(kind, prefix, suffix) ==
    IF prefix = <<>> THEN suffix
    ELSE composeresult(kind, Front(prefix), compose(kind, Last(prefix), suffix))

\* merge_regex_sets: the loop, with test(t) == Tag(t) = kind
RECURSIVE merge_loop(_, _, _, _, _)
merge_loop(kind, unit, ar0, br0, prefix) ==
    IF ar0 = br0 THEN composeresult(kind, prefix, ar0)
    ELSE IF are_complements(ar0, br0) THEN unit
    ELSE LET swap == Tag(br0) = kind /\ Tag(ar0) # kind
             ar == IF swap THEN br0 ELSE ar0
             br == IF swap THEN ar0 ELSE br0
         IN  IF Tag(br) = kind
             THEN IF are_complements(ar[2], br[2]) THEN unit
                  ELSE IF compare(ar[2], br[2]) = 0
                  THEN merge_loop(kind, unit, ar[3], br[3], Append(prefix, ar[2]))
                  ELSE IF compare(ar[2], br[2]) = -1
                  THEN merge_loop(kind, unit, ar[3], br, Append(prefix, ar[2]))
                  ELSE merge_loop(kind, unit, ar, br[3], Append(prefix, br[2]))
             ELSE IF Tag(ar) = kind
             THEN IF are_complements(ar[2], br) THEN unit
                  ELSE IF compare(ar[2], br) = 0 THEN composeresult(kind, prefix, ar)
                  ELSE IF compare(ar[2], br) = -1
                  THEN merge_loop(kind, unit, ar[3], br, Append(prefix, ar[2]))
                  ELSE composeresult(kind, Append(prefix, br), ar)
             ELSE IF compare(ar, br) = -1
                  THEN composeresult(kind, Append(prefix, ar), br)
                  ELSE composeresult(kind, Append(prefix, br), ar)

merge_regex_sets(kind, r1, r2, unit) == merge_loop(kind, unit, r1, r2, <<>>)

\* the union that keeps the other operand next to Sigma+ (mutant)
mk_regex_union_keep_other(r1, r2) ==
    IF r1 = r2 \/ re_is_empty(r2) \/ re_is_full_seq(r1) THEN r1
    ELSE IF re_is_empty(r1) \/ re_is_full_seq(r2) THEN r2
    ELSE IF re_is_dot_plus(r1) /\ get_info(r2).min_length > 0 THEN r2
    ELSE IF re_is_dot_plus(r2) /\ get_info(r1).min_length > 0 THEN r1
    ELSE merge_regex_sets("re.union", r1, r2, re_full_seq)

mk_regex_union_normalize(r1, r2) ==
    IF r1 = r2 \/ re_is_empty(r2) \/ re_is_full_seq(r1) THEN r1
    ELSE IF re_is_empty(r1) \/ re_is_full_seq(r2) THEN r2
    ELSE IF re_is_dot_plus(r1) /\ get_info(r2).min_length > 0 THEN r1
    ELSE IF re_is_dot_plus(r2) /\ get_info(r1).min_length > 0 THEN r2
    ELSE merge_regex_sets("re.union", r1, r2, re_full_seq)

mk_regex_inter_normalize(a, b) ==
    LET r1 == IF re_is_epsilon(b) THEN b ELSE a
        r2 == IF re_is_epsilon(b) THEN a ELSE b
    IN  IF r1 = r2 \/ re_is_empty(r1) \/ re_is_full_seq(r2) THEN r1
        ELSE IF re_is_empty(r2) \/ re_is_full_seq(r1) THEN r2
        ELSE IF re_is_epsilon(r1)
        THEN IF get_info(r2).nullable = "true" THEN r1
             ELSE IF get_info(r2).nullable = "false" THEN re_empty
             ELSE merge_regex_sets("re.inter", r1, r2, re_empty)
        ELSE IF re_is_dot_plus(r1) /\ get_info(r2).min_length > 0 THEN r2
        ELSE IF re_is_dot_plus(r2) /\ get_info(r1).min_length > 0 THEN r1
        ELSE merge_regex_sets("re.inter", r1, r2, re_empty)

RECURSIVE mk_regex_concat(_, _)
mk_regex_concat(r, s) ==
    IF re_is_epsilon(r) \/ re_is_empty(s) THEN s
    ELSE IF re_is_epsilon(s) \/ re_is_empty(r) THEN r
    ELSE IF re_is_full_seq(r) /\ re_is_full_seq(s) THEN r
    ELSE IF re_is_full_char(r) /\ re_is_full_seq(s) THEN re_dot_plus
    ELSE IF re_is_full_seq(r) /\ re_is_full_char(s) THEN re_dot_plus
    ELSE IF Tag(r) = "re.concat" THEN mk_regex_concat(r[2], mk_regex_concat(r[3], s))
    ELSE <<"re.concat", r, s>>

RECURSIVE mk_regex_reverse(_)
mk_regex_reverse(r) ==
    IF \/ Tag(r) \in {"re.empty", "re.range", "re.full_seq", "re.full_char", "re.of_pred"}
       \/ re_is_epsilon(r) \/ re_is_dot_plus(r) THEN r
    ELSE IF Tag(r) = "to_re" THEN <<"re.reverse", r>>
    ELSE IF Tag(r) = "re.reverse" THEN r[2]
    ELSE IF Tag(r) = "re.concat"
    THEN mk_regex_concat(mk_regex_reverse(r[3]), mk_regex_reverse(r[2]))
    ELSE IF is_ite(r) THEN mk_ite(r[2], mk_regex_reverse(r[3]), mk_regex_reverse(r[4]))
    ELSE IF Tag(r) \in {"re.union", "re.inter", "re.diff"}
    THEN <<Tag(r), mk_regex_reverse(r[2]), mk_regex_reverse(r[3])>>
    ELSE IF Tag(r) \in {"re.star", "re.plus", "re.opt", "re.comp"}
    THEN <<Tag(r), mk_regex_reverse(r[2])>>
    ELSE IF Tag(r) = "re.loop1" THEN <<"re.loop1", mk_regex_reverse(r[2]), r[3]>>
    ELSE IF Tag(r) = "re.loop" THEN mk_loop_proper(mk_regex_reverse(r[2]), r[3], r[4])
    ELSE <<"re.reverse", r>>

\* --------------------------------------------- derivative normal form
mk_re_union0(a, b) ==
    IF a = b THEN <<"BR_DONE", a>>
    ELSE IF re_is_empty(a) THEN <<"BR_DONE", b>>
    ELSE IF re_is_empty(b) THEN <<"BR_DONE", a>>
    ELSE IF re_is_full_seq(a) THEN <<"BR_DONE", a>>
    ELSE IF re_is_full_seq(b) THEN <<"BR_DONE", b>>
    ELSE IF Tag(a) = "re.star" /\ re_is_epsilon(b) THEN <<"BR_DONE", a>>
    ELSE IF Tag(b) = "re.star" /\ re_is_epsilon(a) THEN <<"BR_DONE", b>>
    ELSE <<"BR_FAILED", NULL>>

mk_re_inter0(a, b) ==
    IF a = b THEN <<"BR_DONE", a>>
    ELSE IF re_is_empty(a) THEN <<"BR_DONE", a>>
    ELSE IF re_is_empty(b) THEN <<"BR_DONE", b>>
    ELSE IF re_is_full_seq(a) THEN <<"BR_DONE", b>>
    ELSE IF re_is_full_seq(b) THEN <<"BR_DONE", a>>
    ELSE <<"BR_FAILED", NULL>>

mk_re_union(a, b) == <<"BR_DONE", mk_regex_union_normalize(a, b)>>
mk_re_inter(a, b) == <<"BR_DONE", mk_regex_inter_normalize(a, b)>>

mk_re_complement(a) ==
    IF Tag(a) = "re.inter"
    THEN <<"BR_REWRITE2", <<"re.union", mk_re_comp(a[2]), mk_re_comp(a[3])>>>>
    ELSE IF Tag(a) = "re.union"
    THEN <<"BR_REWRITE2", <<"re.inter", mk_re_comp(a[2]), mk_re_comp(a[3])>>>>
    ELSE IF re_is_empty(a) THEN <<"BR_DONE", re_full_seq>>
    ELSE IF re_is_full_seq(a) THEN <<"BR_DONE", re_empty>>
    ELSE IF Tag(a) = "re.comp" THEN <<"BR_DONE", a[2]>>
    ELSE IF re_is_epsilon(a) THEN <<"BR_DONE", re_dot_plus>>
    ELSE <<"BR_FAILED", NULL>>

\* pred_implies: a sound, partial implication between ite conditions
RECURSIVE pred_implies(_, _)
\* pred_implies with both comparisons of the third case non-strict (mutant)
pred_implies_loose(a, b) ==
    IF Tag(a) = "not" /\ Tag(b) = "not" THEN pred_implies(b[2], a[2])
    ELSE IF is_char_le(a) /\ is_char_le(b)
    THEN le_char(b[2], a[2]) /\ le_char(a[3], b[3])
    ELSE IF is_char_le(a) /\ Tag(b) = "not" /\ is_char_le(b[2])
    THEN le_char(b[2][3], a[2]) /\ le_char(a[3], b[2][2])
    ELSE IF is_char_le(b) /\ Tag(a) = "not" /\ is_char_le(a[2])
    THEN le_char(b[2], a[2][3]) /\ le_char(a[2][2], b[3])
    ELSE FALSE

pred_implies(a, b) ==
    IF Tag(a) = "not" /\ Tag(b) = "not" THEN pred_implies(b[2], a[2])
    ELSE IF is_char_le(a) /\ is_char_le(b)
    THEN le_char(b[2], a[2]) /\ le_char(a[3], b[3])
    ELSE IF is_char_le(a) /\ Tag(b) = "not" /\ is_char_le(b[2])
    THEN \/ (le_char(b[2][3], a[2]) /\ lt_char(a[3], b[2][2]))
         \/ (lt_char(b[2][3], a[2]) /\ le_char(a[3], b[2][2]))
    ELSE IF is_char_le(b) /\ Tag(a) = "not" /\ is_char_le(a[2])
    THEN le_char(b[2], a[2][3]) /\ le_char(a[2][2], b[3])
    ELSE FALSE

\* mk_der_op_rec's get_id lambda: the character code of e <= c, the id of
\* the condition (of its argument, for a negation) otherwise
get_id(e) ==
    IF is_char_le(e) /\ is_const_char(e[3]) THEN <<e[3][2]>>
    ELSE IF Tag(e) = "not" THEN stable_id(e[2])
    ELSE stable_id(e)

\* mk_der_op_rec's mk_ite lambda
der_mk_ite(c, a, b) == IF a = b THEN a ELSE mk_ite(c, a, b)

\* mk_der_op's pre-simplification: <<status, result>>
mk_der_op_pre(k, a, b) ==
    CASE k = "OP_RE_INTERSECT" -> mk_re_inter0(a, b)
      [] k = "OP_RE_UNION" -> mk_re_union0(a, b)
      [] k = "OP_RE_CONCAT" -> mk_re_concat(a, b)
      [] OTHER -> <<"BR_FAILED", NULL>>

\* mk_der_op_rec's leaf combiner
mk_der_op_leaf(k, a, b) ==
    CASE k = "OP_RE_INTERSECT" -> mk_re_inter(a, b)[2]
      [] k = "OP_RE_UNION" -> mk_re_union(a, b)[2]
      [] k = "OP_RE_CONCAT" -> mk_re_append(a, b)

\* mk_der_op_rec: is_symmetric
is_symmetric(k) == k = "OP_RE_UNION" \/ k = "OP_RE_INTERSECT"

RECURSIVE mk_der_op(_, _, _, _), mk_der_op_rec(_, _, _, _)
\* mk_der_op_rec, both arguments ite with different conditions, once the
\* arguments are ordered: the implications between the two conditions
\* simplify b under ca and under its negation
mk_der_op_ites_combine(S, k, a, b, b_then, b_else) ==
    \* r2 is computed first when only r2 is settled by an implication
    IF b_then = b /\ b_else # b
    THEN LET x1 == mk_der_op(S, k, a[4], b_else)
             x2 == mk_der_op(x1.s, k, a[3], b_then)
         IN  Ret(der_mk_ite(a[2], x2.r, x1.r), x2.s)
    ELSE LET x1 == mk_der_op(S, k, a[3], b_then)
             x2 == mk_der_op(x1.s, k, a[4], b_else)
         IN  Ret(der_mk_ite(a[2], x1.r, x2.r), x2.s)

mk_der_op_ites(S, k, a, b) ==
    mk_der_op_ites_combine(
        S, k, a, b,
        IF pred_implies(a[2], b[2]) THEN b[3]
        ELSE IF pred_implies(a[2], mk_not(b[2])) THEN b[4] ELSE b,
        IF pred_implies(mk_not(a[2]), b[2]) THEN b[3]
        ELSE IF pred_implies(mk_not(a[2]), mk_not(b[2])) THEN b[4] ELSE b)

mk_der_op(S, k, a, b) ==
    LET pre == mk_der_op_pre(k, a, b)
        S0 == between_calls(S)
        hit == op_cache_find(S0, k, a, b, NULL)
    IN  IF pre[1] # "BR_FAILED" THEN Ret(pre[2], S)
        ELSE IF hit # NULL THEN Ret(hit, S0)
        ELSE cache_result(mk_der_op_rec(S0, k, a, b), k, a, b, NULL)

mk_der_op_rec(S, k0, a0, b0) ==
    LET k == IF k0 = "OP_RE_UNION"
                  /\ (Tag(a0) = "re.antimirov_union" \/ Tag(b0) = "re.antimirov_union")
             THEN "_OP_RE_ANTIMIROV_UNION" ELSE k0
    IN  IF k = "_OP_RE_ANTIMIROV_UNION" THEN Ret(<<"re.antimirov_union", a0, b0>>, S)
        ELSE IF Tag(a0) = "re.antimirov_union"
        THEN LET r1 == mk_der_op(S, k, a0[2], b0)
                 r2 == mk_der_op(r1.s, k, a0[3], b0)
             IN  Ret(<<"re.antimirov_union", r1.r, r2.r>>, r2.s)
        ELSE IF Tag(b0) = "re.antimirov_union"
        THEN LET r1 == mk_der_op(S, k, a0, b0[2])
                 r2 == mk_der_op(r1.s, k, a0, b0[3])
             IN  Ret(<<"re.antimirov_union", r1.r, r2.r>>, r2.s)
        ELSE IF is_ite(a0) /\ is_ite(b0) /\ a0[2] = b0[2]
        THEN LET r1 == mk_der_op(S, k, a0[3], b0[3])
                 r2 == mk_der_op(r1.s, k, a0[4], b0[4])
             IN  Ret(der_mk_ite(a0[2], r1.r, r2.r), r2.s)
        ELSE IF is_ite(a0) /\ is_ite(b0)
        THEN IF is_symmetric(k) /\ id_lt(get_id(a0[2]), get_id(b0[2]))
             THEN mk_der_op_ites(S, k, b0, a0)
             ELSE mk_der_op_ites(S, k, a0, b0)
        ELSE IF is_ite(a0)
        THEN LET r1 == mk_der_op(S, k, a0[3], b0)
                 r2 == mk_der_op(r1.s, k, a0[4], b0)
             IN  Ret(der_mk_ite(a0[2], r1.r, r2.r), r2.s)
        ELSE IF is_ite(b0)
        THEN LET r1 == mk_der_op(S, k, a0, b0[3])
                 r2 == mk_der_op(r1.s, k, a0, b0[4])
             IN  Ret(der_mk_ite(b0[2], r1.r, r2.r), r2.s)
        ELSE Ret(mk_der_op_leaf(k, a0, b0), S)

mk_der_union(S, r1, r2) == mk_der_op(S, "OP_RE_UNION", r1, r2)
mk_der_inter(S, r1, r2) == mk_der_op(S, "OP_RE_INTERSECT", r1, r2)
mk_der_concat(S, r1, r2) == mk_der_op(S, "OP_RE_CONCAT", r1, r2)

RECURSIVE mk_der_compl(_, _)
mk_der_compl(S, r) ==
    LET S0 == between_calls(S)
        hit == op_cache_find(S0, "OP_RE_COMPLEMENT", r, NULL, NULL)
    IN  IF hit # NULL THEN Ret(hit, S0)
        ELSE cache_result(
                 IF Tag(r) = "re.antimirov_union"
                 THEN LET res1 == mk_der_compl(S0, r[2])
                          res2 == mk_der_compl(res1.s, r[3])
                      IN  mk_der_inter(res2.s, res1.r, res2.r)
                 ELSE IF is_ite(r)
                 THEN LET n == EvalBoth(S0, mk_der_compl, r[3], r[4])
                      IN  Ret(mk_ite(r[2], n.a, n.b), n.s)
                 ELSE LET c == mk_re_complement(r)
                      IN  Ret(IF c[1] = "BR_FAILED" THEN mk_re_comp(r) ELSE c[2], S0),
                 "OP_RE_COMPLEMENT", r, NULL, NULL)

re_and(cond, r) ==
    IF is_true(cond) THEN r
    ELSE IF is_false(cond) THEN re_empty
    ELSE mk_ite(cond, r, re_empty)

re_predicate(cond) == re_and(cond, re_epsilon)

RECURSIVE mk_der_cond(_, _, _)
mk_der_cond(S, cond, ele) ==
    IF Tag(cond) = "eq" /\ Sort(cond[2]) = "char"
    THEN LET r1 == mk_der_cond(S, mk_le(cond[2], cond[3]), ele)
             r2 == mk_der_cond(r1.s, mk_le(cond[3], cond[2]), ele)
         IN  mk_der_inter(r2.s, r1.r, r2.r)
    ELSE IF is_char_le(cond) /\ is_const_char(cond[2]) /\ cond[3] = ele
    THEN IF cond[2][2] > 0
         THEN mk_der_compl(S, re_predicate(mk_le(ele, mk_char(cond[2][2] - 1))))
         ELSE Ret(re_predicate(mk_true), S)
    ELSE IF Tag(cond) = "not"
    THEN LET r1 == mk_der_cond(S, cond[2], ele)
         IN  mk_der_compl(r1.s, r1.r)
    ELSE IF Tag(cond) = "and"
    THEN LET r1 == mk_der_cond(S, cond[2], ele)
             r2 == mk_der_cond(r1.s, cond[3], ele)
         IN  mk_der_inter(r2.s, r1.r, r2.r)
    ELSE IF Tag(cond) = "or"
    THEN LET r1 == mk_der_cond(S, cond[2], ele)
             r2 == mk_der_cond(r1.s, cond[3], ele)
         IN  mk_der_union(r2.s, r1.r, r2.r)
    ELSE Ret(re_predicate(cond), S)

\* ------------------------------------------------ Antimirov derivative
RECURSIVE mk_antimirov_deriv_union(_, _)
mk_antimirov_deriv_union(d1, d2) ==
    IF is_ite(d1) /\ is_ite(d2) /\ d1[2] = d2[2]
    THEN mk_ite(d1[2], mk_antimirov_deriv_union(d1[3], d2[3]),
                mk_antimirov_deriv_union(d1[4], d2[4]))
    ELSE mk_regex_union_normalize(d1, d2)

RECURSIVE mk_antimirov_deriv_restrict(_, _, _)
mk_antimirov_deriv_restrict(e, d, cond) ==
    IF is_false(cond) THEN re_empty
    ELSE IF re_is_empty(d) \/ is_true(cond) THEN d
    ELSE IF is_ite(d)
    THEN LET path_and_c == simplify_path(e, mk_and(cond, d[2]))
             path_and_notc == simplify_path(e, mk_and(cond, mk_not(d[2])))
         IN  mk_ite_simplify(d[2], mk_antimirov_deriv_restrict(e, d[3], path_and_c),
                             mk_antimirov_deriv_restrict(e, d[4], path_and_notc))
    ELSE IF Tag(d) = "re.union"
    THEN mk_antimirov_deriv_union(mk_antimirov_deriv_restrict(e, d[2], cond),
                                  mk_antimirov_deriv_restrict(e, d[3], cond))
    ELSE d

RECURSIVE mk_antimirov_deriv_intersection(_, _, _, _)
mk_antimirov_deriv_intersection(e, d1, d2, path) ==
    IF re_is_empty(d1) THEN d1
    ELSE IF re_is_empty(d2) THEN d2
    ELSE IF is_ite(d1)
    THEN LET path_and_c == simplify_path(e, mk_and(path, d1[2]))
             path_and_notc == simplify_path(e, mk_and(path, mk_not(d1[2])))
         IN  IF is_false(path_and_c)
             THEN mk_antimirov_deriv_intersection(e, d1[4], d2, path)
             ELSE IF is_false(path_and_notc)
             THEN mk_antimirov_deriv_intersection(e, d1[3], d2, path)
             ELSE mk_ite(d1[2],
                         mk_antimirov_deriv_intersection(e, d1[3], d2, path_and_c),
                         mk_antimirov_deriv_intersection(e, d1[4], d2, path_and_notc))
    ELSE IF is_ite(d2) THEN mk_antimirov_deriv_intersection(e, d2, d1, path)
    ELSE IF d1 = d2 \/ re_is_full_seq(d2) THEN mk_antimirov_deriv_restrict(e, d1, path)
    ELSE IF re_is_full_seq(d1) THEN mk_antimirov_deriv_restrict(e, d2, path)
    ELSE IF Tag(d1) = "re.union"
    THEN mk_antimirov_deriv_union(mk_antimirov_deriv_intersection(e, d1[2], d2, path),
                                  mk_antimirov_deriv_intersection(e, d1[3], d2, path))
    ELSE IF Tag(d2) = "re.union"
    THEN mk_antimirov_deriv_union(mk_antimirov_deriv_intersection(e, d1, d2[2], path),
                                  mk_antimirov_deriv_intersection(e, d1, d2[3], path))
    ELSE mk_regex_inter_normalize(d1, d2)

RECURSIVE mk_antimirov_deriv_concat(_, _)
mk_antimirov_deriv_concat(d, r) ==
    IF is_ite(d)
    THEN mk_ite(d[2], mk_antimirov_deriv_concat(d[3], r), mk_antimirov_deriv_concat(d[4], r))
    ELSE IF Tag(d) = "re.union"
    THEN mk_antimirov_deriv_union(mk_antimirov_deriv_concat(d[2], r),
                                  mk_antimirov_deriv_concat(d[3], r))
    ELSE mk_re_append(d, r)

RECURSIVE mk_antimirov_deriv_negate(_, _)
mk_antimirov_deriv_negate(elem, d) ==
    IF re_is_empty(d) THEN re_full_seq
    ELSE IF re_is_epsilon(d) THEN re_dot_plus
    ELSE IF re_is_full_seq(d) THEN re_empty
    ELSE IF re_is_dot_plus(d) THEN re_epsilon
    ELSE IF is_ite(d)
    THEN mk_ite(d[2], mk_antimirov_deriv_negate(elem, d[3]),
                mk_antimirov_deriv_negate(elem, d[4]))
    ELSE IF Tag(d) = "re.union"
    THEN mk_antimirov_deriv_intersection(elem, mk_antimirov_deriv_negate(elem, d[2]),
                                         mk_antimirov_deriv_negate(elem, d[3]), mk_true)
    ELSE IF Tag(d) = "re.inter"
    THEN mk_antimirov_deriv_union(mk_antimirov_deriv_negate(elem, d[2]),
                                  mk_antimirov_deriv_negate(elem, d[3]))
    ELSE IF Tag(d) = "re.comp" THEN d[2]
    ELSE mk_re_comp(d)

\* mk_antimirov_deriv_rec, the range case: the condition c1 <= e <= c2 (with
\* |r| = 1 for a bound that is no literal), <<false>> if no case applies
deriv_range_cond(e, r1, r2) ==
    LET nth0(s) == <<"nth_i", s, <<"int", 0>>>>
        len1(s) == <<"len1", s>>
    IN  IF is_unit_string(r1) /\ is_unit_string(r2)
        THEN <<TRUE, mk_and(mk_le(unit_string_char(r1), e), mk_le(e, unit_string_char(r2)))>>
        ELSE IF ~is_string(r1) /\ is_unit_string(r2)
        THEN <<TRUE, mk_and(len1(r1), mk_and(mk_le(nth0(r1), e),
                                             mk_le(e, unit_string_char(r2))))>>
        ELSE IF ~is_string(r2) /\ is_unit_string(r1)
        THEN <<TRUE, mk_and(len1(r2), mk_and(mk_le(unit_string_char(r1), e),
                                             mk_le(e, nth0(r2))))>>
        ELSE IF ~is_string(r1) /\ ~is_string(r2)
        THEN <<TRUE, mk_and(len1(r1), mk_and(len1(r2), mk_and(mk_le(nth0(r1), e),
                                                              mk_le(e, nth0(r2)))))>>
        ELSE <<FALSE, mk_false>>

RECURSIVE mk_antimirov_deriv(_, _, _, _), mk_antimirov_deriv_rec(_, _, _, _)
\* mk_antimirov_deriv with the path condition left out of the cache key (mutant)
mk_antimirov_deriv_no_path(S, e, r, path) ==
    LET S0 == between_calls(S)
        hit == op_cache_find(S0, "OP_RE_DERIVATIVE", e, r, NULL)
    IN  IF hit # NULL THEN Ret(hit, S0)
        ELSE cache_result(mk_antimirov_deriv_rec(S0, e, r, path), "OP_RE_DERIVATIVE", e, r, NULL)

mk_antimirov_deriv(S, e, r, path) ==
    LET S0 == between_calls(S)
        hit == op_cache_find(S0, "OP_RE_DERIVATIVE", e, r, path)
    IN  IF hit # NULL THEN Ret(hit, S0)
        ELSE cache_result(mk_antimirov_deriv_rec(S0, e, r, path), "OP_RE_DERIVATIVE", e, r, path)

mk_antimirov_deriv_rec(S, e, r, path) ==
    LET D(T, x) == mk_antimirov_deriv(T, e, x, path)
        both == EvalBoth(S, D, r[2], r[3])
    IN  IF re_is_empty(r) \/ re_is_epsilon(r) THEN Ret(re_empty, S)
        ELSE IF re_is_full_seq(r) \/ re_is_dot_plus(r) THEN Ret(re_full_seq, S)
        ELSE IF re_is_full_char(r) THEN Ret(re_epsilon, S)
        ELSE IF Tag(r) = "to_re"
        THEN LET ht == get_head_tail(r[2])
                 c1 == m_br_mk_and(mk_not(mk_eq(r[2], mk_seq_empty)),
                                   mk_eq(mk_seq_first(r[2]), e))
                 c2 == m_br_mk_and(path, c1)
             IN  IF ht[1]
                 THEN IF eq_char(e, ht[2]) THEN Ret(mk_to_re(ht[3]), S)
                      ELSE IF neq_char(e, ht[2]) THEN Ret(re_empty, S)
                      ELSE Ret(mk_ite_simplify(mk_eq(e, ht[2]), mk_to_re(ht[3]), re_empty), S)
                 ELSE IF is_false(c2) THEN Ret(re_empty, S)
                 ELSE Ret(mk_ite(c1, mk_to_re(mk_seq_rest(r[2])), re_empty), S)
        ELSE IF Tag(r) = "re.reverse" /\ Tag(r[2]) = "to_re"
        THEN LET r1 == r[2][2]
                 c1 == m_br_mk_and(mk_not(mk_eq(r1, mk_seq_empty)), mk_eq(mk_seq_last(r1), e))
                 c2 == m_br_mk_and(path, c1)
             IN  IF is_false(c2) THEN Ret(re_empty, S)
                 ELSE Ret(mk_ite_simplify(c1, <<"re.reverse", mk_to_re(mk_seq_butlast(r1))>>,
                                          re_empty), S)
        ELSE IF Tag(r) = "re.reverse"
        THEN LET rev == mk_regex_reverse(r[2])
             IN  IF rev = r THEN Ret(<<"re.derivative", e, rev>>, S)
                 ELSE mk_antimirov_deriv(S, e, rev, path)
        ELSE IF Tag(r) = "re.concat"
        THEN LET with_c1(r1nullable, d1, c1) ==
                     IF is_false(m_br_mk_and(r1nullable.r, path)) THEN Ret(c1, d1.s)
                     ELSE LET d2 == D(d1.s, r[3])
                          IN  Ret(mk_antimirov_deriv_union(
                                      c1, mk_ite_simplify(r1nullable.r, d2.r, re_empty)), d2.s)
                 with_d1(r1nullable, d1) ==
                     with_c1(r1nullable, d1, mk_antimirov_deriv_concat(d1.r, r[3]))
                 with_nullable(r1nullable) == with_d1(r1nullable, D(r1nullable.s, r[2]))
             IN  with_nullable(is_nullable(S, r[2]))
        ELSE IF is_ite(r)
        THEN LET c1 == simplify_path(e, mk_and(r[2], path))
                 c2 == simplify_path(e, mk_and(mk_not(r[2]), path))
                 Dp(T, x) == mk_antimirov_deriv(T, e, x[1], x[2])
                 n == EvalBoth(S, Dp, <<r[3], c1>>, <<r[4], c2>>)
             IN  IF is_false(c1) THEN mk_antimirov_deriv(S, e, r[4], c2)
                 ELSE IF is_false(c2) THEN mk_antimirov_deriv(S, e, r[3], c1)
                 ELSE Ret(mk_ite_simplify(r[2], n.a, n.b), n.s)
        ELSE IF Tag(r) = "re.range"
        THEN LET rc == deriv_range_cond(e, r[2], r[3])
                 range == simplify_path(e, rc[2])
                 psi == IF rc[1] THEN simplify_path(e, mk_and(path, range)) ELSE mk_false
             IN  IF is_false(psi) THEN Ret(re_empty, S)
                 ELSE Ret(mk_ite_simplify(range, re_epsilon, re_empty), S)
        ELSE IF Tag(r) = "re.union"
        THEN Ret(mk_antimirov_deriv_union(both.a, both.b), both.s)
        ELSE IF Tag(r) = "re.inter"
        THEN Ret(mk_antimirov_deriv_intersection(e, both.a, both.b, mk_true), both.s)
        ELSE IF Tag(r) \in {"re.star", "re.plus"} \/ (Tag(r) = "re.loop1" /\ r[3] <= 1)
        THEN LET d1 == D(S, r[2])
             IN  Ret(mk_antimirov_deriv_concat(d1.r, mk_re_star(r[2])), d1.s)
        ELSE IF Tag(r) = "re.loop1"
        THEN LET d1 == D(S, r[2])
             IN  Ret(mk_antimirov_deriv_concat(d1.r, <<"re.loop1", r[2], r[3] - 1>>), d1.s)
        ELSE IF Tag(r) = "re.loop"
        THEN LET d1 == D(S, r[2])
                 t == mk_loop_proper(r[2], IF r[3] = 0 THEN 0 ELSE r[3] - 1, r[4] - 1)
             IN  IF (r[3] = 0 /\ r[4] = 0) \/ r[4] < r[3] THEN Ret(re_empty, S)
                 ELSE Ret(mk_antimirov_deriv_concat(d1.r, t), d1.s)
        ELSE IF Tag(r) = "re.opt" THEN D(S, r[2])
        ELSE IF Tag(r) = "re.comp"
        THEN LET d1 == D(S, r[2])
             IN  Ret(mk_antimirov_deriv_negate(e, d1.r), d1.s)
        ELSE IF Tag(r) = "re.diff"
        THEN Ret(mk_antimirov_deriv_intersection(
                     e, both.a, mk_antimirov_deriv_negate(e, both.b), mk_true), both.s)
        ELSE IF Tag(r) = "re.of_pred"
        THEN mk_der_cond(S, <<"select", r[2], e>>, e)
        ELSE Ret(<<"re.derivative", e, r>>, S)

mk_derivative(S, ele, r) == mk_antimirov_deriv(S, ele, r, mk_true)

\* -------------------------------------------- specification: derivative
\* the elements a derivative is taken by: the character values and the
\* variable the sampler derives by
DerivElems == {mk_char(c) : c \in Chars} \cup {<<"var", 0>>}
DerivWords == WordsOver(Chars, MaxWordLen - 1)

DerivInit ==
    /\ IdleCache /\ IdleEq /\ IdleSample
    /\ \E e \in DerivElems, r \in NullTerms : call = <<"mk_derivative", e, r>>
    /\ ret = NULL

Derive ==
    /\ call[1] = "mk_derivative"
    /\ LET Return(res) ==
               /\ ret' = res.r
               /\ m_table' = res.s.table
               /\ m_trail' = res.s.trail
       IN  Return(mk_derivative(EngineCache(m_table, m_trail, FALSE, 0), call[2], call[3]))
    /\ call' = <<"mk_derivative.done", call[2], call[3]>>
    /\ UNCHANGED <<eqVars, sampleVars>>

DerivNext == Derive
SpecDeriv == DerivInit /\ [][DerivNext]_vars

\* C1: c.w is in L(R) exactly when w is in L(D(c, R, true)), for every regex R,
\* character c and word w, the conditions of the result evaluated at c.
C1_DerivExact ==
    call[1] = "mk_derivative.done" =>
        \A env \in RegexEnvs({call[2], call[3]}) : \A w \in DerivWords :
            Matches(<<EvalChar(call[2], env)>> \o w, call[3], env) = Matches(w, ret, env)

\* the same, for the regexes without a loop whose upper bound is below its lower bound
C1_ProperLoops ==
    (call[1] = "mk_derivative.done" /\ ~has_improper_loop(call[3])) =>
        \A env \in RegexEnvs({call[2], call[3]}) : \A w \in DerivWords :
            Matches(<<EvalChar(call[2], env)>> \o w, call[3], env) = Matches(w, ret, env)

\* check_deriv_normal_form's three assertions: a diff, opt or plus node in t
RECURSIVE has_diff_opt_plus(_)
has_diff_opt_plus(t) ==
    IF Tag(t) \in {"re.diff", "re.opt", "re.plus"} THEN TRUE
    ELSE IF Tag(t) \in {"char", "int", "str", "seq.empty", "true", "false", "svar", "cvar",
                        "ivar", "bvar", "var", "rvar", "bound", "re.empty", "re.full_seq",
                        "re.full_char"} THEN FALSE
    ELSE IF Tag(t) = "re.loop" \/ Tag(t) = "re.loop1" THEN has_diff_opt_plus(t[2])
    ELSE \E j \in 2 .. Len(t) : has_diff_opt_plus(t[j])

\* C11: the result of a derivative call contains no diff, opt or plus node
\* anywhere.
C11_NoDiffOptPlus ==
    call[1] = "mk_derivative.done" => ~has_diff_opt_plus(ret)

\* ------------------------------------------------------------ sampler
\* mk_derivative(r): the derivative by the variable var(0)
mk_derivative_var(S, r) == mk_antimirov_deriv(S, <<"var", 0>>, r, mk_true)

is_var(e) == Tag(e) = "var"
is_ground(r) == VarsOf(r, "var") = {}

\* get_bounds: <<has_bounds, low, high>>
RECURSIVE get_bounds_rec(_, _, _)
get_bounds_rec(e, low, high) ==
    IF Tag(e) = "and"
    THEN LET b == get_bounds_rec(e[3], low, high)
         IN  IF b[1] THEN get_bounds_rec(e[2], b[2], b[3]) ELSE b
    ELSE IF is_char_le(e) /\ is_const_char(e[2]) /\ is_var(e[3])
    THEN <<TRUE, Max(e[2][2], low), high>>
    ELSE IF is_char_le(e) /\ is_const_char(e[3]) /\ is_var(e[2])
    THEN <<TRUE, low, Min(e[3][2], high)>>
    ELSE IF Tag(e) = "eq" /\ is_var(e[2]) /\ is_const_char(e[3])
    THEN <<TRUE, Max(e[3][2], low), Min(e[3][2], high)>>
    ELSE IF Tag(e) = "eq" /\ is_var(e[3]) /\ is_const_char(e[2])
    THEN <<TRUE, Max(e[2][2], low), Min(e[2][2], high)>>
    ELSE <<FALSE, low, high>>

get_bounds(e) ==
    LET b == get_bounds_rec(e, 0, max_char)
    IN  <<b[1] /\ b[2] <= b[3], b[2], b[3]>>

re_eval_pos(e, str_len, exclude, needs_derivation) ==
    [e |-> e, str_len |-> str_len, exclude |-> exclude,
     needs_derivation |-> needs_derivation]

\* str.resize(n)
resize(s, n) ==
    IF n <= Len(s) THEN SubSeq(s, 1, n) ELSE s \o [j \in 1 .. n - Len(s) |-> 0]

\* the letter 'a', within the alphabet of the model
char_a == Min(97, max_char)

\* one pass over the excluded ranges: <<found, ch>>
RECURSIVE exclude_scan(_, _, _)
exclude_scan(exclude, ch, found) ==
    IF exclude = <<>> THEN <<found, ch>>
    ELSE LET l == Head(exclude)[1]
             h == Head(exclude)[2]
         IN  IF l <= ch /\ ch <= h THEN exclude_scan(Tail(exclude), h + 1, TRUE)
             ELSE exclude_scan(Tail(exclude), ch, found)

\* the choice of a character outside the excluded ranges: <<failed, ch>>
RECURSIVE select_char(_, _, _)
select_char(exclude, ch, wrapped) ==
    LET sc == exclude_scan(exclude, ch, FALSE)
    IN  IF ~sc[1] THEN <<FALSE, sc[2]>>
        ELSE IF sc[2] # max_char + 1 THEN select_char(exclude, sc[2], wrapped)
        ELSE IF wrapped THEN <<TRUE, sc[2]>>
        ELSE select_char(exclude, 0, TRUE)

\* the state of the sampler's loop
SampleState(S, td, s, vis, result) ==
    [s |-> S, todo |-> td, str |-> s, visited |-> vis, result |-> result]

\* the second half of an iteration: the case of the derivative to take
some_string_in_re_case(S, td, s, vis, r, exclude) ==
    IF re_is_empty(r) THEN SampleState(S, td, s, vis, NULL)
    ELSE IF Tag(r) = "re.union"
    THEN SampleState(S, td \o <<re_eval_pos(r[2], Len(s), exclude, FALSE),
                                re_eval_pos(r[3], Len(s), exclude, FALSE)>>, s, vis, NULL)
    ELSE IF is_ite(r)
    THEN LET b == get_bounds(r[2])
             has_bounds == b[1]
             exclude1 == IF has_bounds THEN Append(exclude, <<b[2], b[3]>>) ELSE exclude
             td1 == IF ~re_is_empty(r[4])
                    THEN Append(td, re_eval_pos(r[4], Len(s), exclude1, FALSE)) ELSE td
         IN  IF has_bounds
             THEN SampleState(S, Append(td1, re_eval_pos(r[3], Len(s) + 1, <<>>, TRUE)),
                              Append(s, b[2]), vis, NULL)
             ELSE SampleState(S, td1, s, vis, NULL)
    ELSE IF is_ground(r)
    THEN LET sel == select_char(exclude, char_a, FALSE)
         IN  IF sel[1] THEN SampleState(S, td, s, vis, NULL)
             ELSE SampleState(S, Append(td, re_eval_pos(r, Len(s) + 1, <<>>, TRUE)),
                              Append(s, sel[2]), vis, NULL)
    ELSE SampleState(S, td, s, vis, <<"l_undef">>)

\* the iteration that derives a marked regex again (mutant)
some_string_in_re_step_revisit(S, td0, s0, vis) ==
    LET current == td0[Len(td0)]
        td == SubSeq(td0, 1, Len(td0) - 1)
        r == current.e
        s == resize(s0, current.str_len)
        derived(d) == some_string_in_re_case(d.s, td, s, vis \cup {r}, d.r, <<>>)
    IN  IF td0 = <<>> THEN SampleState(S, td0, s0, vis, <<"l_false">>)
        ELSE IF ~current.needs_derivation
        THEN some_string_in_re_case(S, td, s, vis, r, current.exclude)
        ELSE IF re_is_empty(r) THEN SampleState(S, td, s, vis, NULL)
        ELSE IF get_info(r).nullable = "true" THEN SampleState(S, td, s, vis, <<"l_true">>)
        ELSE IF Tag(r) = "re.union"
        THEN SampleState(S, td \o <<re_eval_pos(r[2], Len(s), <<>>, TRUE),
                                    re_eval_pos(r[3], Len(s), <<>>, TRUE)>>,
                         s, vis \cup {r}, NULL)
        ELSE derived(mk_derivative_var(S, r))

\* one iteration of the loop of some_string_in_re
some_string_in_re_step(S, td0, s0, vis) ==
    LET current == td0[Len(td0)]
        td == SubSeq(td0, 1, Len(td0) - 1)
        r == current.e
        s == resize(s0, current.str_len)
        derived(d) == some_string_in_re_case(d.s, td, s, vis \cup {r}, d.r, <<>>)
    IN  IF td0 = <<>> THEN SampleState(S, td0, s0, vis, <<"l_false">>)
        ELSE IF ~current.needs_derivation
        THEN some_string_in_re_case(S, td, s, vis, r, current.exclude)
        ELSE IF r \in vis \/ re_is_empty(r) THEN SampleState(S, td, s, vis, NULL)
        ELSE IF get_info(r).nullable = "true" THEN SampleState(S, td, s, vis, <<"l_true">>)
        ELSE IF Tag(r) = "re.union"
        THEN SampleState(S, td \o <<re_eval_pos(r[2], Len(s), <<>>, TRUE),
                                    re_eval_pos(r[3], Len(s), <<>>, TRUE)>>,
                         s, vis \cup {r}, NULL)
        ELSE derived(mk_derivative_var(S, r))

\* ------------------------------------------------ specification: sampler
MaxSteps == 30
SampleWords == WordsOver(Chars, MaxWordLen)
\* words that begin with a character of a range but not with one given character
prefix_of(r) == <<"re.concat", r, re_full_seq>>
SampleNested ==
    {<<"re.inter", prefix_of(range_ab), mk_re_comp(prefix_of(l))>> : l \in {lit_a, lit_b}}
      \cup {<<"re.diff", prefix_of(range_ab), prefix_of(l)>> : l \in {lit_a, lit_b}}
      \cup {<<"re.inter", prefix_of(range_ab), prefix_of(l)>> : l \in {lit_a, lit_b}}
      \cup {<<"re.inter", mk_re_comp(lit_a), range_ab>>}
SampleTerms == {r \in NullTerms : ~has_improper_loop(r)} \cup SampleNested

SampleInit ==
    /\ IdleCache /\ IdleEq
    /\ \E r \in SampleTerms :
          /\ call = <<"some_string_in_re", r, 0>>
          /\ todo = <<re_eval_pos(r, 0, <<>>, TRUE)>>
    /\ str = <<>>
    /\ visited = {}
    /\ ret = NULL

SampleStep ==
    /\ call[1] = "some_string_in_re"
    /\ ret = NULL
    /\ call[3] < MaxSteps
    /\ LET Continue(n) ==
               /\ todo' = n.todo
               /\ str' = n.str
               /\ visited' = n.visited
               /\ ret' = n.result
               /\ m_table' = n.s.table
               /\ m_trail' = n.s.trail
       IN  Continue(some_string_in_re_step(EngineCache(m_table, m_trail, FALSE, 0),
                                           todo, str, visited))
    /\ call' = <<"some_string_in_re", call[2], call[3] + 1>>
    /\ UNCHANGED eqVars

SampleNext == SampleStep
SpecSample == SampleInit /\ [][SampleNext]_vars

\* C5: a word returned by some_string_in_re(R) with Some is accepted by R.
C5_SampleAccepted ==
    (call[1] = "some_string_in_re" /\ ret = <<"l_true">>) =>
        \A env \in RegexEnvs({call[2]}) : Matches(str, call[2], env)

\* C6: some_string_in_re(R) returns None only if L(R) has no word.
C6_NoneIsEmpty ==
    (call[1] = "some_string_in_re" /\ ret = <<"l_false">>) =>
        \A env \in RegexEnvs({call[2]}) : \A w \in SampleWords : ~Matches(w, call[2], env)

\* ------------------------------------------ specification: the engine
\* Sequences of is_nullable, mk_antimirov_deriv, mk_der_op and mk_der_compl
\* calls on one operation cache, with the cache cleared between calls and
\* between sub-calls.
MaxCalls == 2
MaxPeriod == 1
v0 == <<"var", 0>>
le_v(n) == <<"le", v0, mk_char(n)>>
range_bb == <<"re.range", mk_string(<<1>>), mk_string(<<1>>)>>
EngineElems == {v0}
EnginePaths == {mk_true, le_v(0)}
EngineRegexes ==
    { range_bb,
      <<"re.union", mk_ite(le_v(0), range_bb, re_empty), range_bb>>,
      <<"re.concat", mk_re_star(lit_a), range_bb>>,
      <<"re.inter", prefix_of(range_ab), prefix_of(lit_b)>> }
EngineBdds ==
    {mk_re_star(lit_a)} \cup {mk_ite(le_v(n), re_full_char, mk_re_star(lit_a)) : n \in 0 .. 1}
EngineOps == {"OP_RE_UNION", "OP_RE_INTERSECT", "OP_RE_CONCAT"}

EngineInit ==
    /\ IdleCache /\ IdleEq /\ IdleSample
    /\ call = <<"idle", 0, 0>>
    /\ ret = NULL

EngineReturn(res) ==
    /\ ret' = res.r
    /\ m_table' = res.s.table
    /\ m_trail' = res.s.trail
    /\ UNCHANGED <<eqVars, sampleVars>>

CallNullable ==
    /\ call[2] < MaxCalls
    /\ \E r \in EngineRegexes, rtl \in BOOLEAN, period \in 0 .. MaxPeriod :
          /\ EngineReturn(is_nullable(EngineCache(m_table, m_trail, rtl, period), r))
          /\ call' = <<"is_nullable.done", call[2] + 1, period, r>>

CallDeriv ==
    /\ call[2] < MaxCalls
    /\ \E e \in EngineElems, r \in EngineRegexes, path \in EnginePaths,
          rtl \in BOOLEAN, period \in 0 .. MaxPeriod :
          /\ EngineReturn(mk_antimirov_deriv(EngineCache(m_table, m_trail, rtl, period),
                                             e, r, path))
          /\ call' = <<"mk_antimirov_deriv.done", call[2] + 1, period, e, r, path>>

CallDerOp ==
    /\ call[2] < MaxCalls
    /\ \E k \in EngineOps, a \in EngineBdds, b \in EngineBdds,
          rtl \in BOOLEAN, period \in 0 .. MaxPeriod :
          /\ EngineReturn(mk_der_op(EngineCache(m_table, m_trail, rtl, period), k, a, b))
          /\ call' = <<"mk_der_op.done", call[2] + 1, period, k, a, b>>

CallDerCompl ==
    /\ call[2] < MaxCalls
    /\ \E a \in EngineBdds, rtl \in BOOLEAN, period \in 0 .. MaxPeriod :
          /\ EngineReturn(mk_der_compl(EngineCache(m_table, m_trail, rtl, period), a))
          /\ call' = <<"mk_der_compl.done", call[2] + 1, period, a>>

\* the cache is cleared between two calls
ClearCache ==
    /\ call[1] # "idle"
    /\ m_table # EmptyTable
    /\ m_table' = EmptyTable
    /\ m_trail' = <<>>
    /\ UNCHANGED <<call, ret, eqVars, sampleVars>>

EngineNext == CallNullable \/ CallDeriv \/ CallDerOp \/ CallDerCompl \/ ClearCache
SpecEngine == EngineInit /\ [][EngineNext]_vars

\* the term the last call returns on an empty cache that is never cleared
EngineRef ==
    CASE call[1] = "is_nullable.done" -> is_nullable(FreshCache, call[4]).r
      [] call[1] = "mk_antimirov_deriv.done" ->
            mk_antimirov_deriv(FreshCache, call[4], call[5], call[6]).r
      [] call[1] = "mk_der_op.done" -> mk_der_op(FreshCache, call[4], call[5], call[6]).r
      [] call[1] = "mk_der_compl.done" -> mk_der_compl(FreshCache, call[4]).r
      [] OTHER -> ret

\* C8: whatever the cache holds and wherever it is cleared, a call returns the
\* term it returns on an empty cache without any clearing.
C8_CacheTransparent == ret = EngineRef

\* a second call, with the cache cleared between its sub-calls, whose result
\* is a conditional derivative
C8_Witness ==
    /\ call[1] = "mk_antimirov_deriv.done"
    /\ call[2] = 2
    /\ call[3] > 0
    /\ is_ite(ret)

\* the condition ids decrease strictly from the root to the leaves of the
\* outer ite-BDD (below the Antimirov unions at the top)
RECURSIVE bdd_sorted(_, _)
bdd_sorted(t, above) ==
    IF is_ite(t)
    THEN /\ above = <<>> \/ id_lt(get_id(t[2]), above)
         /\ bdd_sorted(t[3], get_id(t[2]))
         /\ bdd_sorted(t[4], get_id(t[2]))
    ELSE IF Tag(t) = "re.antimirov_union" /\ above = <<>>
    THEN bdd_sorted(t[2], <<>>) /\ bdd_sorted(t[3], <<>>)
    ELSE TRUE

has_ite(t) == VarsOf(t, "ite") # {}

\* C10: after a D, mk_der_op or mk_der_compl call the condition ids of the
\* result strictly decrease along every root-to-leaf path of its outer ite-BDD,
\* for every operator (D on regexes without conditions, path true).
C10_SortedBdd ==
    (\/ call[1] \in {"mk_der_op.done", "mk_der_compl.done"}
     \/ call[1] = "mk_antimirov_deriv.done" /\ ~has_ite(call[5]) /\ is_true(call[6]))
        => bdd_sorted(ret, <<>>)

\* ------------------------------------------- Boolean connectives
\* obj_map<expr, expr*>: the entries <<key, value>>
map_contains(mp, x) == \E j \in 1 .. Len(mp) : mp[j][1] = x
map_find(mp, x) == mp[CHOOSE j \in 1 .. Len(mp) : mp[j][1] = x][2]
map_insert(mp, x, v) ==
    IF map_contains(mp, x)
    THEN [j \in 1 .. Len(mp) |-> IF mp[j][1] = x THEN <<x, v>> ELSE mp[j]]
    ELSE Append(mp, <<x, v>>)

\* str().is_in_re(e, x, y) && !str().is_empty(x), and the same under a negation
is_in_re_atom(e) == Tag(e) = "in_re" /\ ~is_seq_empty(e[2])
is_not_in_re_atom(e) == Tag(e) = "not" /\ Tag(e[2]) = "in_re" /\ ~is_seq_empty(e[2][2])

\* the regex that merges two atoms of the same polarity
merge_in_re(is_and, z, y) ==
    IF is_and THEN <<"re.inter", z, y>> ELSE <<"re.union", z, y>>
\* merge_not_in_re with the connective of the positive atoms (mutant)
merge_not_in_re_same(is_and, z, y) ==
    IF is_and THEN <<"re.inter", z, y>> ELSE <<"re.union", z, y>>
merge_not_in_re(is_and, z, y) ==
    IF is_and THEN <<"re.union", z, y>> ELSE <<"re.inter", z, y>>

\* mk_bool_app_helper: the loop over the arguments, from argument i on
RECURSIVE bool_app_scan(_, _, _, _, _, _, _)
bool_app_scan(is_and, args, i, in_re, not_in_re, found_pair, new_args) ==
    IF i > Len(args)
    THEN [in_re |-> in_re, not_in_re |-> not_in_re, found_pair |-> found_pair,
          new_args |-> new_args]
    ELSE IF is_in_re_atom(args[i])
    THEN IF map_contains(in_re, args[i][2])
         THEN bool_app_scan(is_and, args, i + 1,
                            map_insert(in_re, args[i][2],
                                       merge_in_re(is_and, map_find(in_re, args[i][2]),
                                                   args[i][3])),
                            not_in_re, TRUE, new_args)
         ELSE bool_app_scan(is_and, args, i + 1, map_insert(in_re, args[i][2], args[i][3]),
                            not_in_re, found_pair \/ map_contains(not_in_re, args[i][2]),
                            new_args)
    ELSE IF is_not_in_re_atom(args[i])
    THEN IF map_contains(not_in_re, args[i][2][2])
         THEN bool_app_scan(is_and, args, i + 1, in_re,
                            map_insert(not_in_re, args[i][2][2],
                                       merge_not_in_re(is_and,
                                                       map_find(not_in_re, args[i][2][2]),
                                                       args[i][2][3])),
                            TRUE, new_args)
         ELSE bool_app_scan(is_and, args, i + 1, in_re,
                            map_insert(not_in_re, args[i][2][2], args[i][2][3]),
                            found_pair \/ map_contains(in_re, args[i][2][2]), new_args)
    ELSE bool_app_scan(is_and, args, i + 1, in_re, not_in_re, found_pair,
                       Append(new_args, args[i]))

\* mk_bool_app_helper: the arguments after the scan, <<status, new_args>>; the
\* result is the connective applied to new_args
bool_app_merge(is_and, st) ==
    IF ~st.found_pair THEN <<"BR_FAILED", <<>>>>
    ELSE LET positive ==
                 [j \in 1 .. Len(st.in_re) |->
                     IF map_contains(st.not_in_re, st.in_re[j][1])
                     THEN <<"in_re", st.in_re[j][1],
                            merge_in_re(is_and, st.in_re[j][2],
                                        mk_re_comp(map_find(st.not_in_re, st.in_re[j][1])))>>
                     ELSE <<"in_re", st.in_re[j][1], st.in_re[j][2]>>]
             negative ==
                 SelectSeq(st.not_in_re, LAMBDA kv : ~map_contains(st.in_re, kv[1]))
         IN  <<"BR_REWRITE_FULL",
               st.new_args \o positive
                 \o [j \in 1 .. Len(negative) |->
                        <<"in_re", negative[j][1], mk_re_comp(negative[j][2])>>]>>

mk_bool_app_helper(is_and, args) ==
    IF ~\E i \in 1 .. Len(args) :
           Tag(args[i]) = "in_re" \/ (Tag(args[i]) = "not" /\ Tag(args[i][2]) = "in_re")
    THEN <<"BR_FAILED", <<>>>>
    ELSE bool_app_merge(is_and, bool_app_scan(is_and, args, 1, <<>>, <<>>, FALSE, <<>>))

\* ------------------------------- specification: Boolean connectives
MaxArgs == 3
BoolRegexes == {lit_a, range_ab}
BoolAtoms ==
    {<<"in_re", x, r>> : x \in {sx, sy}, r \in BoolRegexes}
      \cup {mk_not(<<"in_re", x, r>>) : x \in {sx, sy}, r \in BoolRegexes}
      \cup {<<"in_re", mk_seq_empty, lit_a>>, <<"bvar", "p">>}
BoolArgs == UNION {[1 .. n -> BoolAtoms] : n \in 1 .. MaxArgs}
\* the assignments of the variables of BoolAtoms
MaxBoolLen == 1
BoolEnvs ==
    [s : [{"x", "y"} -> WordsOver({0, 1}, MaxBoolLen)], b : [{"p"} -> BOOLEAN]]

BoolInit ==
    /\ IdleCache /\ IdleEq /\ IdleSample
    /\ \E is_and \in BOOLEAN, args \in BoolArgs : call = <<"mk_bool_app", is_and, args>>
    /\ ret = NULL

BoolApp ==
    /\ call[1] = "mk_bool_app"
    /\ ret' = mk_bool_app_helper(call[2], call[3])
    /\ call' = <<"mk_bool_app.done", call[2], call[3]>>
    /\ UNCHANGED <<cacheVars, eqVars, sampleVars>>

BoolNext == BoolApp
SpecBool == BoolInit /\ [][BoolNext]_vars

\* the membership atom under e (e or its argument), <<>> if e has none
membership(e) ==
    IF Tag(e) = "in_re" THEN <<e>>
    ELSE IF Tag(e) = "not" /\ Tag(e[2]) = "in_re" THEN <<e[2]>>
    ELSE <<>>
\* the regexes a merged regex is built from
RECURSIVE merged_from(_)
merged_from(r) ==
    IF r \in BoolRegexes THEN {r}
    ELSE IF Tag(r) = "re.comp" THEN merged_from(r[2])
    ELSE merged_from(r[2]) \cup merged_from(r[3])
\* the truth value of the connective applied to args
Connective(is_and, args, env) ==
    IF is_and THEN \A j \in 1 .. Len(args) : EvalBool(args[j], env)
    ELSE \E j \in 1 .. Len(args) : EvalBool(args[j], env)

\* C12: mk_bool_app_helper fails when no two membership atoms constrain the
\* same sequence term; otherwise it returns REWRITE_FULL, every membership
\* atom of the result is built from the regexes of argument atoms over its own
\* sequence term only, and the result is equivalent to the connective applied
\* to the arguments under every assignment.
C12_BoolAppMerge ==
    call[1] = "mk_bool_app.done" =>
        LET args == call[3]
            shared == \E i, j \in 1 .. Len(args) :
                         /\ i < j
                         /\ membership(args[i]) # <<>> /\ membership(args[j]) # <<>>
                         /\ membership(args[i])[1][2] = membership(args[j])[1][2]
        IN  /\ ~shared => ret[1] = "BR_FAILED"
            /\ ret[1] \in {"BR_FAILED", "BR_REWRITE_FULL"}
            /\ ret[1] = "BR_REWRITE_FULL" =>
                  /\ \A j \in 1 .. Len(ret[2]) :
                        (Tag(ret[2][j]) = "in_re" /\ ret[2][j] \notin BoolAtoms) =>
                            \A r \in merged_from(ret[2][j][3]) :
                                \E i \in 1 .. Len(args) :
                                    /\ membership(args[i]) # <<>>
                                    /\ membership(args[i])[1] = <<"in_re", ret[2][j][2], r>>
                  /\ \A env \in BoolEnvs :
                        Connective(call[2], ret[2], env) = Connective(call[2], args, env)

\* a conjunction with atoms over two sequence terms, one of them negated, merged
C12_Witness ==
    /\ call[1] = "mk_bool_app.done"
    /\ call[2]
    /\ ret[1] = "BR_REWRITE_FULL"
    /\ \E j \in 1 .. Len(ret[2]) :
          /\ Tag(ret[2][j]) = "in_re"
          /\ Tag(ret[2][j][3]) = "re.inter"
          /\ Tag(ret[2][j][3][3]) = "re.comp"
    /\ \E j \in 1 .. Len(ret[2]) : Tag(ret[2][j]) = "in_re" /\ ret[2][j][2] = sy

\* ------------------------------------------------------------- nth_i
\* str().get_concat_units: the atoms of a concatenation, a string literal
\* split into its characters, empty atoms dropped
RECURSIVE get_concat_units(_)
get_concat_units(e) ==
    IF Tag(e) = "seq.concat" THEN get_concat_units(e[2]) \o get_concat_units(e[3])
    ELSE IF is_string(e) THEN [j \in 1 .. Len(e[2]) |-> mk_unit(mk_char(e[2][j]))]
    ELSE IF is_seq_empty(e) THEN <<>>
    ELSE <<e>>

mk_nth_i(s, k) == <<"nth_i", s, <<"int", k>>>>

\* mk_seq_nth_i: the loop over the atoms as, at atom i (from 0): <<status, result>>
RECURSIVE nth_i_loop(_, _, _)
nth_i_loop(as, i, offset) ==
    IF i >= Len(as) THEN <<"BR_FAILED", NULL>>
    ELSE IF is_unit(as[i + 1])
    THEN IF offset = i THEN <<"BR_DONE", as[i + 1][2]>>
         ELSE nth_i_loop(as, i + 1, offset)
    ELSE IF is_ite(as[i + 1])
    THEN IF ~min_length(as[i + 1])[1] THEN <<"BR_FAILED", NULL>>
         ELSE IF i + min_length(as[i + 1])[2] < offset
         THEN nth_i_loop(as, i + 1, offset - min_length(as[i + 1])[2])
         ELSE <<"BR_REWRITE2", mk_ite(as[i + 1][2], mk_nth_i(as[i + 1][3], offset - i),
                                      mk_nth_i(as[i + 1][4], offset - i))>>
    ELSE <<"BR_FAILED", NULL>>

\* mk_seq_nth_i(a, b): <<status, result>>
mk_seq_nth_i(a, b) ==
    IF Tag(b) # "int" \/ b[2] < 0 THEN <<"BR_FAILED", NULL>>
    ELSE IF b[2] = 0 /\ Tag(a) = "at" /\ a[3] = <<"int", 0>>
    THEN <<"BR_REWRITE1", <<"nth_i", a[2], a[3]>>>>
    ELSE nth_i_loop(get_concat_units(a), 0, b[2])

\* ---------------------------------------------- specification: nth_i
MaxAtoms == 3
MaxIndex == 3
cc == <<"cvar", "c">>
cd == <<"cvar", "d">>
bp == <<"bvar", "p">>
NthAtoms ==
    { mk_unit(cc), mk_unit(mk_char(1)), mk_string(<<0, 1>>),
      mk_ite(bp, mk_unit(cc), mk_unit(cd)),
      mk_ite(bp, mk_string(<<0, 1>>), <<"seq.concat", mk_unit(cd), mk_unit(cc)>>),
      mk_ite(bp, mk_unit(cc), mk_seq_empty), sx, <<"at", sx, <<"int", 0>>>> }
NthSeqs == {mk_concat_vec(w) : w \in UNION {[1 .. n -> NthAtoms] : n \in 1 .. MaxAtoms}}
NthIndexes == {<<"int", k>> : k \in -1 .. MaxIndex} \cup {<<"ivar", "n">>}

NthInit ==
    /\ IdleCache /\ IdleEq /\ IdleSample
    /\ \E a \in NthSeqs, b \in NthIndexes : call = <<"mk_seq_nth_i", a, b>>
    /\ ret = NULL

NthI ==
    /\ call[1] = "mk_seq_nth_i"
    /\ ret' = mk_seq_nth_i(call[2], call[3])
    /\ call' = <<"mk_seq_nth_i.done", call[2], call[3]>>
    /\ UNCHANGED <<cacheVars, eqVars, sampleVars>>

NthNext == NthI
SpecNth == NthInit /\ [][NthNext]_vars

\* a flattens to units and ites of known fixed length, and b is a constant
\* index inside a
NthInBounds(a, b) ==
    /\ \A j \in 1 .. Len(get_concat_units(a)) :
          \/ is_unit(get_concat_units(a)[j])
          \/ (is_ite(get_concat_units(a)[j]) /\ min_length(get_concat_units(a)[j])[1])
    /\ Tag(b) = "int" /\ 0 <= b[2] /\ b[2] < min_length(a)[2]

\* C13: for a sequence of units and fixed-length ites and a constant in-bounds
\* index k, the rewrite of nth_i(a, k) is the element of a at position k,
\* under every assignment.
C13_NthDenotes ==
    (call[1] = "mk_seq_nth_i.done" /\ NthInBounds(call[2], call[3])
         /\ ret[1] # "BR_FAILED") =>
        \A env \in RegexEnvs({call[2]}) :
            EvalChar(ret[2], env) = EvalSeq(call[2], env)[call[3][2] + 1]

\* the same, for a position with no ite atom before it that an ite atom covers
\* or a unit holds
C13_FirstIte ==
    (call[1] = "mk_seq_nth_i.done" /\ NthInBounds(call[2], call[3])
         /\ ret[1] # "BR_FAILED"
         /\ \A j \in 1 .. Len(get_concat_units(call[2])) :
               is_ite(get_concat_units(call[2])[j]) =>
                   call[3][2] < j - 1 + min_length(get_concat_units(call[2])[j])[2]) =>
        \A env \in RegexEnvs({call[2]}) :
            EvalChar(ret[2], env) = EvalSeq(call[2], env)[call[3][2] + 1]

\* ----------------------------------------------------- replace_all
\* mk_seq_replace_all, both literals: the loop over s1 from position i
RECURSIVE replace_all_scan(_, _, _, _)
\* the loop resuming one position after the start of an occurrence (mutant)
replace_all_scan_overlap(s1, s2, c, i) ==
    IF i >= Len(s1) THEN <<>>
    ELSE IF Len(s1) >= Len(s2) + i /\ s2 = SubSeq(s1, i + 1, i + Len(s2))
    THEN <<c>> \o replace_all_scan(s1, s2, c, i + 1)
    ELSE <<mk_unit(mk_char(s1[i + 1]))>> \o replace_all_scan(s1, s2, c, i + 1)

replace_all_scan(s1, s2, c, i) ==
    IF i >= Len(s1) THEN <<>>
    ELSE IF Len(s1) >= Len(s2) + i /\ s2 = SubSeq(s1, i + 1, i + Len(s2))
    THEN <<c>> \o replace_all_scan(s1, s2, c, i + Len(s2))
    ELSE <<mk_unit(mk_char(s1[i + 1]))>> \o replace_all_scan(s1, s2, c, i + 1)

\* try_get_unit_values: <<ok, vals>>
RECURSIVE try_get_unit_values(_)
try_get_unit_values(s) ==
    IF Tag(s) = "seq.concat"
    THEN IF is_unit_value(s[2]) /\ try_get_unit_values(s[3])[1]
         THEN <<TRUE, <<s[2]>> \o try_get_unit_values(s[3])[2]>>
         ELSE <<FALSE, <<>>>>
    ELSE IF is_unit_value(s) THEN <<TRUE, <<s>>>>
    ELSE <<FALSE, <<>>>>

\* replace_all_subvectors, from position i of a
RECURSIVE replace_all_subvectors(_, _, _, _)
replace_all_subvectors(a, b, c, i) ==
    IF i + Len(b) <= Len(a)
    THEN IF SubSeq(a, i + 1, i + Len(b)) = b
         THEN <<c>> \o replace_all_subvectors(a, b, c, i + Len(b))
         ELSE <<a[i + 1]>> \o replace_all_subvectors(a, b, c, i + 1)
    ELSE SubSeq(a, i + 1, Len(a))

\* mk_seq_replace_all(a, b, c): <<status, result>>
mk_seq_replace_all(a, b, c) ==
    IF is_seq_empty(b) \/ b = c THEN <<"BR_DONE", a>>
    ELSE IF a = b
    THEN <<"BR_REWRITE2", mk_ite(mk_eq(b, mk_seq_empty), mk_seq_empty, c)>>
    ELSE IF is_seq_empty(a) /\ is_seq_empty(c) THEN <<"BR_DONE", a>>
    ELSE IF is_string(a) /\ is_string(b)
    THEN IF Len(a[2]) < Len(b[2]) THEN <<"BR_DONE", a>>
         ELSE <<"BR_REWRITE_FULL", mk_concat_vec(replace_all_scan(a[2], b[2], c, 0))>>
    ELSE IF try_get_unit_values(a)[1] /\ try_get_unit_values(b)[1]
    THEN <<"BR_REWRITE_FULL",
           mk_concat_vec(replace_all_subvectors(try_get_unit_values(a)[2],
                                                try_get_unit_values(b)[2], c, 0))>>
    ELSE <<"BR_FAILED", NULL>>

\* ------------------------------------- specification: replace_all
MaxReplLen == 4
MaxPatLen == 2
\* the vector of units of a word
unit_vector(w) == mk_concat_vec([j \in 1 .. Len(w) |-> mk_unit(mk_char(w[j]))])
ReplSubjects == WordsOver({0, 1}, MaxReplLen) \cup {<<0, 1, 0, 1, 0, 1, 0>>}
ReplPatterns == WordsOver({0, 1}, MaxPatLen) \cup {<<0, 1, 0>>}
ReplArgs ==
    {<<mk_string(a), mk_string(b)>> : a \in ReplSubjects, b \in ReplPatterns}
      \cup {<<unit_vector(a), unit_vector(b)>> :
               a \in ReplSubjects \ {<<>>}, b \in ReplPatterns \ {<<>>}}
      \cup {<<mk_string(a), unit_vector(b)>> :
               a \in WordsOver({0, 1}, 1), b \in ReplPatterns \ {<<>>}}
ReplBy == {sx, mk_string(<<2>>), mk_string(<<0>>), mk_seq_empty, mk_unit(mk_char(1))}

ReplInit ==
    /\ IdleCache /\ IdleEq /\ IdleSample
    /\ \E ab \in ReplArgs, c \in ReplBy : call = <<"mk_seq_replace_all", ab[1], ab[2], c>>
    /\ ret = NULL

ReplaceAll ==
    /\ call[1] = "mk_seq_replace_all"
    /\ ret' = mk_seq_replace_all(call[2], call[3], call[4])
    /\ call' = <<"mk_seq_replace_all.done", call[2], call[3], call[4]>>
    /\ UNCHANGED <<cacheVars, eqVars, sampleVars>>

ReplNext == ReplaceAll
SpecReplaceAll == ReplInit /\ [][ReplNext]_vars

\* the left-to-right, non-overlapping replacement of b by c in the word w
RECURSIVE Replaced(_, _, _)
Replaced(w, b, c) ==
    IF Len(w) < Len(b) THEN w
    ELSE IF SubSeq(w, 1, Len(b)) = b THEN c \o Replaced(SubSeq(w, Len(b) + 1, Len(w)), b, c)
    ELSE <<w[1]>> \o Replaced(Tail(w), b, c)

\* C14: for literal strings a and b with b non-empty, and for vectors of unit
\* values a and b, replace_all(a, b, c) is rewritten, and the result denotes
\* the left-to-right, non-overlapping replacement of b by c in a;
\* replace_all("abababa", "aba", "X") denotes "XbX".
C14_ReplaceAllScan ==
    (/\ call[1] = "mk_seq_replace_all.done"
     /\ \/ (is_string(call[2]) /\ is_string(call[3]) /\ call[3][2] # <<>>)
        \/ (try_get_unit_values(call[2])[1] /\ try_get_unit_values(call[3])[1])) =>
        /\ ret[1] # "BR_FAILED"
        /\ \A env \in RegexEnvs({call[4]}) :
              EvalSeq(ret[2], env)
                  = Replaced(EvalSeq(call[2], env), EvalSeq(call[3], env),
                             EvalSeq(call[4], env))
        /\ (call[2] = mk_string(<<0, 1, 0, 1, 0, 1, 0>>) /\ call[3] = mk_string(<<0, 1, 0>>)
               /\ call[4] = mk_string(<<2>>)) =>
              ret = <<"BR_REWRITE_FULL",
                      mk_concat_vec(<<mk_string(<<2>>), mk_unit(mk_char(1)), mk_string(<<2>>)>>)>>

\* "abababa" with "aba" replaced by "X", rewritten to X . b . X
C14_Witness ==
    /\ call = <<"mk_seq_replace_all.done", mk_string(<<0, 1, 0, 1, 0, 1, 0>>),
                mk_string(<<0, 1, 0>>), mk_string(<<2>>)>>
    /\ ret[1] = "BR_REWRITE_FULL"
    /\ EvalSeq(ret[2], [s |-> <<>>]) = <<2, 1, 2>>

\* ----------------------------------------------------------- loop
\* re().mk_loop(r, lo): the loop with a lower bound only
mk_loop(r, lo) == <<"re.loop1", r, lo>>

\* mk_re_loop(f, num_args, args): params are the parameters of f;
\* <<status, result>>
mk_re_loop(params, args) ==
    LET np == Len(params)
        lo2 == IF np > 0 THEN params[1] ELSE 0
        hi2 == IF np > 1 THEN params[2] ELSE IF np > 0 THEN params[1] ELSE 0
    IN  IF Len(args) = 1
        THEN IF np = 2 /\ lo2 > hi2 THEN <<"BR_DONE", re_empty>>
             ELSE IF np = 2 /\ lo2 = 0 /\ hi2 = 0 THEN <<"BR_DONE", mk_to_re(mk_seq_empty)>>
             ELSE IF Tag(args[1]) = "re.loop1" /\ np = 1
             THEN <<"BR_REWRITE1", mk_loop(args[1][2], lo2 * args[1][3])>>
             ELSE IF Tag(args[1]) = "re.loop" /\ np = 2 /\ args[1][3] = args[1][4] /\ lo2 = hi2
             THEN <<"BR_REWRITE1", mk_loop_proper(args[1][2], lo2 * args[1][3], hi2 * args[1][4])>>
             ELSE IF np = 2 /\ lo2 = 1 /\ hi2 = 1 THEN <<"BR_DONE", args[1]>>
             ELSE IF np = 1 /\ lo2 = 0 THEN <<"BR_DONE", mk_re_star(args[1])>>
             ELSE <<"BR_FAILED", NULL>>
        ELSE IF Len(args) = 2
        THEN IF Tag(args[2]) = "int" /\ args[2][2] >= 0
             THEN <<"BR_REWRITE1", mk_loop(args[1], args[2][2])>>
             ELSE IF Tag(args[2]) = "int" /\ args[2][2] < 0 THEN <<"BR_DONE", re_empty>>
             ELSE <<"BR_FAILED", NULL>>
        ELSE IF Len(args) = 3
        THEN IF /\ Tag(args[2]) = "int" /\ args[2][2] >= 0
                /\ Tag(args[3]) = "int" /\ args[3][2] >= 0
             THEN <<"BR_REWRITE1", mk_loop_proper(args[1], args[2][2], args[3][2])>>
             ELSE <<"BR_FAILED", NULL>>
        ELSE <<"BR_FAILED", NULL>>

\* -------------------------------------------- specification: loop
LoopBodies == {lit_a, range_ab, mk_to_re(sx), mk_to_re(mk_string(<<0, 1>>))}
LoopArgs ==
    LoopBodies \cup {mk_loop(r, l) : r \in LoopBodies, l \in 0 .. MaxLoop}
      \cup {<<"re.loop", r, l, h>> : r \in LoopBodies, l \in 0 .. MaxLoop, h \in 0 .. MaxLoop}
LoopParams == UNION {[1 .. n -> 0 .. MaxLoop] : n \in 0 .. 2}
LoopBounds == {<<"int", n>> : n \in -1 .. MaxLoop} \cup {<<"ivar", "n">>}
LoopCalls ==
    {<<p, <<a>>>> : p \in LoopParams, a \in LoopArgs}
      \cup {<<<<>>, <<a, n>>>> : a \in LoopBodies, n \in LoopBounds}
      \cup {<<<<>>, <<a, n, k>>>> : a \in LoopBodies, n \in LoopBounds, k \in LoopBounds}

LoopInit ==
    /\ IdleCache /\ IdleEq /\ IdleSample
    /\ \E c \in LoopCalls : call = <<"mk_re_loop", c[1], c[2]>>
    /\ ret = NULL

ReLoop ==
    /\ call[1] = "mk_re_loop"
    /\ ret' = mk_re_loop(call[2], call[3])
    /\ call' = <<"mk_re_loop.done", call[2], call[3]>>
    /\ UNCHANGED <<cacheVars, eqVars, sampleVars>>

LoopNext == ReLoop
SpecLoop == LoopInit /\ [][LoopNext]_vars

\* r1 and r2 have the same language, over the words up to MaxWordLen
SameLanguage(r1, r2) ==
    \A env \in RegexEnvs({r1, r2}) : \A w \in WordsOver({0, 1}, MaxWordLen) :
        Matches(w, r1, env) <=> Matches(w, r2, env)

\* C15: a single-bound loop applied to a single-bound loop, loop(loop(R, l), l'),
\* is rewritten to loop(R, l * l'), and the result has the language of the
\* original for all l, l' >= 0; for an R that is not a loop, loop(R, 0, 0) is
\* epsilon, loop(R, 1, 1) is R and loop(R, 0) is R*.
C15_LoopFusion ==
    (call[1] = "mk_re_loop.done" /\ Len(call[3]) = 1) =>
        /\ (Len(call[2]) = 1 /\ Tag(call[3][1]) = "re.loop1") =>
              /\ ret = <<"BR_REWRITE1", mk_loop(call[3][1][2], call[3][1][3] * call[2][1])>>
              /\ SameLanguage(ret[2], mk_loop(call[3][1], call[2][1]))
        /\ (call[3][1] \in LoopBodies /\ call[2] = <<0, 0>>) => ret = <<"BR_DONE", re_epsilon>>
        /\ (call[3][1] \in LoopBodies /\ call[2] = <<1, 1>>) => ret = <<"BR_DONE", call[3][1]>>
        /\ (call[3][1] \in LoopBodies /\ call[2] = <<0>>) =>
              ret = <<"BR_DONE", mk_re_star(call[3][1])>>

\* the fusion keeps the language when the outer bound is positive or the
\* inner bound is at most one
C15_LoopFusionPositive ==
    (/\ call[1] = "mk_re_loop.done" /\ Len(call[3]) = 1
     /\ Len(call[2]) = 1 /\ Tag(call[3][1]) = "re.loop1"
     /\ (call[2][1] >= 1 \/ call[3][1][3] <= 1)) =>
        /\ ret = <<"BR_REWRITE1", mk_loop(call[3][1][2], call[3][1][3] * call[2][1])>>
        /\ SameLanguage(ret[2], mk_loop(call[3][1], call[2][1]))

\* ------------------------------- specification: union and intersection
MergeAtoms ==
    { re_dot_plus, re_empty, re_full_seq, re_epsilon, re_full_char, lit_a, lit_b, range_ab,
      mk_to_re(sx), mk_to_re(mk_string(<<0, 1>>)), mk_re_star(lit_a),
      <<"re.concat", lit_a, re_full_seq>>, <<"re.comp", lit_a>>,
      <<"re.union", lit_a, lit_b>>, <<"re.inter", range_ab, <<"re.comp", lit_a>>>>,
      <<"re.loop", lit_a, 1, 2>> }

MergeInit ==
    /\ IdleCache /\ IdleEq /\ IdleSample
    /\ \E k \in {"re.union", "re.inter"}, r1 \in MergeAtoms, r2 \in MergeAtoms :
          call = <<"normalize", k, r1, r2>>
    /\ ret = NULL

Normalize ==
    /\ call[1] = "normalize"
    /\ ret' = IF call[2] = "re.union" THEN mk_regex_union_normalize(call[3], call[4])
              ELSE mk_regex_inter_normalize(call[3], call[4])
    /\ call' = <<"normalize.done", call[2], call[3], call[4]>>
    /\ UNCHANGED <<cacheVars, eqVars, sampleVars>>

MergeNext == Normalize
SpecMerge == MergeInit /\ [][MergeNext]_vars

\* the calls that combine Sigma+ with an X of minimum length at least 1:
\* <<kind, X>>
DotPlusCase ==
    IF call[1] # "normalize.done" THEN <<>>
    ELSE IF re_is_dot_plus(call[3]) /\ get_info(call[4]).min_length >= 1
    THEN <<call[2], call[4]>>
    ELSE IF re_is_dot_plus(call[4]) /\ get_info(call[3]).min_length >= 1
    THEN <<call[2], call[3]>>
    ELSE <<>>

\* C16: merging for union, Sigma+ combined with a regex X whose minimum length
\* is at least 1 yields X, and merging for intersection yields Sigma+.
C16_DotPlusYieldsX ==
    DotPlusCase # <<>> =>
        ret = IF DotPlusCase[1] = "re.union" THEN DotPlusCase[2] ELSE re_dot_plus

\* C16 (amended): merging for union, Sigma+ combined with a regex X whose
\* minimum length is at least 1 yields Sigma+, and merging for intersection
\* yields X; both results have the language of the combination.
C16_DotPlusAbsorbs ==
    DotPlusCase # <<>> =>
        /\ ret = IF DotPlusCase[1] = "re.union" THEN re_dot_plus ELSE DotPlusCase[2]
        /\ SameLanguage(ret, <<call[2], call[3], call[4]>>)

\* Sigma+ united with to_re("a") is Sigma+
C16_Witness ==
    /\ call = <<"normalize.done", "re.union", lit_a, re_dot_plus>>
    /\ ret = re_dot_plus

\* ------------------------------------------------ operator dispatch
\* mk_seq_unit with m_coalesce_chars = coalesce: <<status, result>>
mk_seq_unit(coalesce, e) ==
    IF is_const_char(e) /\ coalesce THEN <<"BR_DONE", mk_string(<<e[2]>>)>>
    ELSE <<"BR_FAILED", NULL>>

\* mk_seq_concat(a, b, result) with m_coalesce_chars = coalesce: <<status, result>>
mk_seq_concat_core(coalesce, a, b) ==
    IF is_string(a) /\ is_string(b) /\ coalesce THEN <<"BR_DONE", mk_string(a[2] \o b[2])>>
    ELSE IF Tag(a) = "seq.concat"
    THEN <<"BR_REWRITE2", <<"seq.concat", a[2], <<"seq.concat", a[3], b>>>>>>
    ELSE IF is_seq_empty(a) THEN <<"BR_DONE", b>>
    ELSE IF is_seq_empty(b) THEN <<"BR_DONE", a>>
    ELSE IF is_string(a) /\ coalesce /\ Tag(b) = "seq.concat" /\ is_string(b[2])
    THEN <<"BR_DONE", <<"seq.concat", mk_string(a[2] \o b[2][2]), b[3]>>>>
    ELSE <<"BR_FAILED", NULL>>

\* mk_str_units for the string constant w
mk_str_units(w) ==
    <<"BR_DONE", mk_concat_vec([j \in 1 .. Len(w) |-> mk_unit(mk_char(w[j]))])>>

\* mk_str_itos; the disjunction of the ten equalities is <<"or*", eqs>>
mk_str_itos(a) ==
    IF Tag(a) = "int"
    THEN <<"BR_DONE", IF a[2] >= 0 THEN mk_string(Decimal(a[2])) ELSE mk_string(<<>>)>>
    ELSE IF Tag(a) = "stoi" /\ max_length(a[2])[1] /\ max_length(a[2])[2] <= 1
    THEN <<"BR_REWRITE2",
           mk_ite(<<"or*", [i \in 1 .. 10 |-> mk_eq(a[2], mk_string(<<48 + i - 1>>))]>>,
                  a[2], mk_string(<<>>))>>
    ELSE <<"BR_FAILED", NULL>>

\* mk_str_from_code without the test against max_char (mutant)
mk_str_from_code_unbounded(a) ==
    IF Tag(a) = "int"
    THEN <<"BR_DONE", IF a[2] < 0 THEN mk_string(<<>>) ELSE mk_string(<<a[2]>>)>>
    ELSE <<"BR_FAILED", NULL>>

\* mk_str_from_code
mk_str_from_code(a) ==
    IF Tag(a) = "int"
    THEN <<"BR_DONE", IF a[2] < 0 \/ a[2] > max_char THEN mk_string(<<>>)
                      ELSE mk_string(<<a[2]>>)>>
    ELSE <<"BR_FAILED", NULL>>

\* m().mk_app(f, args); params are the parameters of f
mk_app(op, params, args) ==
    IF op = "str" THEN mk_string(params)
    ELSE IF op = "re.loop" /\ Len(params) = 1 THEN <<"re.loop1", args[1], params[1]>>
    ELSE IF op = "re.loop" /\ Len(params) = 2
    THEN <<"re.loop", args[1], params[1], params[2]>>
    ELSE <<op>> \o args

LeafTags ==
    {"svar", "cvar", "bvar", "ivar", "rvar", "int", "char", "str", "seq.empty", "re.empty",
     "re.full_seq", "re.full_char", "true", "false", "null"}
RegexTags ==
    {"rvar", "to_re", "re.empty", "re.full_seq", "re.full_char", "re.range", "re.union",
     "re.inter", "re.diff", "re.comp", "re.concat", "re.star", "re.plus", "re.opt",
     "re.loop", "re.loop1", "re.reverse", "re.of_pred", "re.derivative", "re.antimirov_union"}

\* the arguments of an application
term_children(t) ==
    IF Tag(t) \in LeafTags THEN <<>>
    ELSE IF Tag(t) \in {"re.loop", "re.loop1"} THEN <<t[2]>>
    ELSE IF Tag(t) = "or*" THEN t[2]
    ELSE Tail(t)

\* get_depth(t)
RECURSIVE get_depth(_)
get_depth(t) ==
    LET RECURSIVE deepest(_, _)
        deepest(ts, d) ==
            IF ts = <<>> THEN d ELSE deepest(Tail(ts), Max(d, get_depth(ts[1])))
    IN  1 + deepest(term_children(t), 0)

\* t->get_sort() is a regex sort, is a sequence sort
RECURSIVE is_re(_)
is_re(t) == IF is_ite(t) THEN is_re(t[3]) ELSE Tag(t) \in RegexTags
RECURSIVE is_seq(_)
is_seq(t) ==
    IF is_ite(t) THEN is_seq(t[3])
    ELSE Tag(t) \in {"svar", "str", "seq.empty", "unit", "seq.concat", "itos", "from_code",
                     "replace_all", "extract", "at", "rest", "butlast", "seq.skolem"}

\* f->get_range() is a regex sort
range_is_re(op) == op \in {"to_re", "re.loop"}

\* the filter that lets every ite through (mutant)
lift_ites_unfiltered(op, ite) == TRUE

\* lift_ites_filter(f, ite): FALSE iff the ite must not be lifted
lift_ites_filter(op, ite) == ~(range_is_re(op) /\ is_seq(ite))

\* lift_ites_throttled from argument i; single holds the terms whose reference
\* count is 1: <<status, result>>
RECURSIVE lift_ites_loop(_, _, _, _, _)
lift_ites_loop(op, params, args, single, i) ==
    IF i > Len(args) THEN <<"BR_FAILED", NULL>>
    ELSE IF /\ is_ite(args[i])
            /\ lift_ites_filter(op, args[i])
            /\ \/ get_depth(args[i][3]) <= 2 \/ args[i][3] \in single
               \/ get_depth(args[i][4]) <= 2 \/ args[i][4] \in single
    THEN <<"BR_REWRITE2",
           mk_ite(args[i][2], mk_app(op, params, [args EXCEPT ![i] = args[i][3]]),
                  mk_app(op, params, [args EXCEPT ![i] = args[i][4]]))>>
    ELSE lift_ites_loop(op, params, args, single, i + 1)

lift_ites_throttled(op, params, args, single) == lift_ites_loop(op, params, args, single, 1)

\* the operator-specific rule of mk_app_core: <<status, result>>
mk_app_rule(coalesce, op, params, args) ==
    CASE op = "unit" -> mk_seq_unit(coalesce, args[1])
      [] op = "seq.concat" -> mk_seq_concat_core(coalesce, args[1], args[2])
      [] op = "str" -> IF ~coalesce THEN mk_str_units(params) ELSE <<"BR_FAILED", NULL>>
      [] op = "itos" -> mk_str_itos(args[1])
      [] op = "from_code" -> mk_str_from_code(args[1])
      [] op = "nth_i" -> mk_seq_nth_i(args[1], args[2])
      [] op = "replace_all" -> mk_seq_replace_all(args[1], args[2], args[3])
      [] op = "re.loop" -> mk_re_loop(params, args)
      [] op = "to_re" -> <<"BR_FAILED", NULL>>
      [] op = "seq.skolem" -> <<"BR_FAILED", NULL>>

\* the operators whose case returns from mk_app_core at once
returns_at_once(op) == op \in {"nth_i", "seq.skolem"}

\* mk_app_core(f, num_args, args): <<status, result>>
mk_app_core(coalesce, op, params, args, single) ==
    LET finish(st) ==
            IF st[1] = "BR_FAILED" /\ ~returns_at_once(op)
            THEN lift_ites_throttled(op, params, args, single)
            ELSE st
    IN  finish(mk_app_rule(coalesce, op, params, args))

\* --------------------------------------- specification: mk_app_core
MaxInt == 11
ite_s == mk_ite(bp, sx, sy)
deep_x == <<"seq.concat", sx, <<"seq.concat", sy, sx>>>>
deep_y == <<"seq.concat", sy, <<"seq.concat", sx, sy>>>>
ite_deep == mk_ite(bp, deep_x, deep_y)
ite_i == mk_ite(bp, <<"int", 0>>, <<"int", 1>>)
ite_r == mk_ite(bp, lit_a, lit_b)
AppSeqs ==
    { mk_seq_empty, mk_unit(mk_char(0)), mk_unit(cc), sx, mk_string(<<0>>),
      mk_string(<<0, 1>>), <<"seq.concat", mk_unit(mk_char(0)), sx>>,
      <<"seq.concat", mk_string(<<1>>), sx>>, ite_s, ite_deep }
AppCalls ==
    {<<"unit", <<>>, <<c>>>> : c \in {mk_char(0), cc, mk_ite(bp, mk_char(0), mk_char(1))}}
      \cup {<<"seq.concat", <<>>, <<a, b>>>> : a \in AppSeqs, b \in AppSeqs}
      \cup {<<"str", w, <<>>>> : w \in WordsOver({0, 1}, 2)}
      \cup {<<"itos", <<>>, <<n>>>> :
               n \in {<<"int", k>> : k \in -1 .. MaxInt}
                       \cup {<<"ivar", "n">>, <<"stoi", sx>>, <<"stoi", mk_unit(cc)>>,
                             <<"stoi", mk_string(<<0>>)>>, ite_i}}
      \cup {<<"from_code", <<>>, <<n>>>> :
               n \in {<<"int", k>> : k \in -1 .. MaxChar + 1} \cup {<<"ivar", "n">>, ite_i}}
      \cup {<<"nth_i", <<>>, <<a, b>>>> :
               a \in {sx, ite_s, mk_unit(cc)}, b \in {<<"int", 0>>, <<"ivar", "n">>, ite_i}}
      \cup {<<"replace_all", <<>>, <<a, b, c>>>> :
               a \in {sx, ite_s, mk_string(<<0>>)}, b \in {mk_string(<<0>>), sy},
               c \in {sx, ite_s}}
      \cup {<<"re.loop", p, <<r>>>> :
               p \in {<<2>>, <<1, 2>>, <<0, 0>>}, r \in {lit_a, ite_r, mk_to_re(ite_s)}}
      \cup {<<"to_re", <<>>, <<s>>>> : s \in {sx, ite_s, ite_deep}}
      \cup {<<"seq.skolem", <<>>, <<s>>>> : s \in {sx, ite_s}}

\* the then and else branches of the arguments
Branches(args) ==
    UNION {{args[i][3], args[i][4]} : i \in {j \in 1 .. Len(args) : is_ite(args[j])}}

AppInit ==
    /\ IdleCache /\ IdleEq /\ IdleSample
    /\ \E coalesce \in BOOLEAN, c \in AppCalls :
          \E single \in SUBSET Branches(c[3]) :
              call = <<"mk_app_core", coalesce, c[1], c[2], c[3], single>>
    /\ ret = NULL

AppCore ==
    /\ call[1] = "mk_app_core"
    /\ ret' = mk_app_core(call[2], call[3], call[4], call[5], call[6])
    /\ call' = <<"mk_app_core.done", call[2], call[3], call[4], call[5], call[6]>>
    /\ UNCHANGED <<cacheVars, eqVars, sampleVars>>

AppNext == AppCore
SpecApp == AppInit /\ [][AppNext]_vars

\* t contains a string literal of two or more characters
RECURSIVE has_fused_literal(_)
has_fused_literal(t) ==
    IF is_string(t) THEN Len(t[2]) >= 2
    ELSE \E i \in 1 .. Len(term_children(t)) : has_fused_literal(term_children(t)[i])

\* C17: with coalesce_chars false, no result of mk_app_core for an application
\* whose arguments hold no fused literal contains a string literal of two or
\* more characters.
C17_NoFusedLiteral ==
    (/\ call[1] = "mk_app_core.done" /\ ~call[2] /\ ret[1] # "BR_FAILED"
     /\ \A i \in 1 .. Len(call[5]) : ~has_fused_literal(call[5][i])) =>
        ~has_fused_literal(ret[2])

\* with coalesce_chars false, unit, concat, the string constant and from_code
\* return no fused literal
C17_UnitsStayDistinct ==
    (/\ call[1] = "mk_app_core.done" /\ ~call[2] /\ ret[1] # "BR_FAILED"
     /\ call[3] \in {"unit", "seq.concat", "str", "from_code"}
     /\ \A i \in 1 .. Len(call[5]) : ~has_fused_literal(call[5][i])) =>
        ~has_fused_literal(ret[2])

\* ------------------------------------------ specification: characters
MaxExclude == 3
\* the conditions on the element elem
CharBase(elem) ==
    UNION {{<<"le", mk_char(k), elem>>, <<"le", elem, mk_char(k)>>,
            <<"eq", elem, mk_char(k)>>, <<"eq", mk_char(k), elem>>} : k \in Chars}
      \cup {<<"le", cd, elem>>, mk_true}
CharConds(elem) ==
    CharBase(elem) \cup {<<"not", c>> : c \in CharBase(elem)}
      \cup {<<op, c1, c2>> : op \in {"and", "or"}, c1 \in CharBase(elem), c2 \in CharBase(elem)}
Intervals == {lh \in Chars \X Chars : lh[1] <= lh[2]}
Excludes == UNION {[1 .. n -> Intervals] : n \in 0 .. MaxExclude}
CharCalls ==
    {<<"mk_str_from_code", n>> :
        n \in {<<"int", k>> : k \in -2 .. max_char + 2} \cup {<<"ivar", "n">>}}
      \cup {<<"mk_der_cond", c>> : c \in CharConds(v0)}
      \cup {<<"elim_condition", e, c>> : e \in {v0}, c \in CharConds(v0)}
      \cup {<<"elim_condition", e, c>> : e \in {cc}, c \in CharConds(cc)}
      \cup {<<"get_bounds", c>> : c \in CharConds(v0)}
      \cup {<<"select_char", ex>> : ex \in Excludes}

CharInit ==
    /\ IdleCache /\ IdleEq /\ IdleSample
    /\ \E c \in CharCalls : call = c
    /\ ret = NULL

FromCode ==
    /\ call[1] = "mk_str_from_code"
    /\ ret' = mk_str_from_code(call[2])
    /\ call' = <<"mk_str_from_code.done", call[2]>>
    /\ UNCHANGED <<cacheVars, eqVars, sampleVars>>

DerCond ==
    /\ call[1] = "mk_der_cond"
    /\ LET Return(res) ==
               /\ ret' = res.r
               /\ m_table' = res.s.table
               /\ m_trail' = res.s.trail
       IN  Return(mk_der_cond(EngineCache(m_table, m_trail, FALSE, 0), call[2], v0))
    /\ call' = <<"mk_der_cond.done", call[2]>>
    /\ UNCHANGED <<eqVars, sampleVars>>

ElimCondition ==
    /\ call[1] = "elim_condition"
    /\ ret' = elim_condition(call[2], call[3])
    /\ call' = <<"elim_condition.done", call[2], call[3]>>
    /\ UNCHANGED <<cacheVars, eqVars, sampleVars>>

GetBounds ==
    /\ call[1] = "get_bounds"
    /\ ret' = get_bounds(call[2])
    /\ call' = <<"get_bounds.done", call[2]>>
    /\ UNCHANGED <<cacheVars, eqVars, sampleVars>>

SelectChar ==
    /\ call[1] = "select_char"
    /\ ret' = select_char(call[2], char_a, FALSE)
    /\ call' = <<"select_char.done", call[2]>>
    /\ UNCHANGED <<cacheVars, eqVars, sampleVars>>

CharNext == FromCode \/ DerCond \/ ElimCondition \/ GetBounds \/ SelectChar
SpecChar == CharInit /\ [][CharNext]_vars

\* t holds a character constant, or a literal with a character, outside
\* [0, max_char]
RECURSIVE out_of_range(_)
out_of_range(t) ==
    IF Tag(t) = "char" THEN t[2] \notin 0 .. max_char
    ELSE IF Tag(t) = "str" THEN \E i \in 1 .. Len(t[2]) : t[2][i] \notin 0 .. max_char
    ELSE IF Tag(t) \in {"var", "bound"} THEN FALSE
    ELSE \E i \in 1 .. Len(term_children(t)) : out_of_range(term_children(t)[i])

C18_WitnessWrap ==
    /\ call = <<"select_char.done", <<<<1, max_char>>>>>>
    /\ ret = <<FALSE, 0>>

\* the arguments of the call that the throttled lifting accepts
Liftable ==
    {i \in 1 .. Len(call[5]) :
        /\ is_ite(call[5][i])
        /\ ~(range_is_re(call[3]) /\ is_seq(call[5][i]))
        /\ \/ get_depth(call[5][i][3]) <= 2 \/ call[5][i][3] \in call[6]
           \/ get_depth(call[5][i][4]) <= 2 \/ call[5][i][4] \in call[6]}

\* the application with the ite at argument i lifted to the top
Lifted(i) ==
    <<"BR_REWRITE2",
      mk_ite(call[5][i][2], mk_app(call[3], call[4], [call[5] EXCEPT ![i] = call[5][i][3]]),
             mk_app(call[3], call[4], [call[5] EXCEPT ![i] = call[5][i][4]]))>>

RuleFails == mk_app_rule(call[2], call[3], call[4], call[5])[1] = "BR_FAILED"

\* no sequence-sorted ite is lifted out of an operator whose result is a regex
NoSeqIteOutOfRegex ==
    \A i \in 1 .. Len(call[5]) :
        (range_is_re(call[3]) /\ is_ite(call[5][i]) /\ is_seq(call[5][i])) => ret # Lifted(i)

\* C19: for every operator kind, mk_app_core declares FAILED only after the
\* throttled ite lifting was attempted: when an argument is an ite that passes
\* the filter and has a shallow or singly referenced branch, the result is not
\* FAILED, and it is ite(c, f(.., then, ..), f(.., else, ..)) with REWRITE2
\* when no operator-specific rule fires; a sequence-sorted ite is never lifted
\* out of an operator whose result is a regex.
C19_LiftBeforeFailing ==
    call[1] = "mk_app_core.done" =>
        /\ Liftable # {} =>
              /\ ret[1] # "BR_FAILED"
              /\ RuleFails => ret = Lifted(CHOOSE i \in Liftable : \A j \in Liftable : i <= j)
        /\ NoSeqIteOutOfRegex

\* C19 (amended): the same for every operator kind whose case does not return
\* from mk_app_core at once; nth_i and the skolem functions fail without
\* lifting.
C19_LiftUnlessReturned ==
    call[1] = "mk_app_core.done" =>
        /\ (Liftable # {} /\ ~returns_at_once(call[3])) =>
              /\ ret[1] # "BR_FAILED"
              /\ RuleFails => ret = Lifted(CHOOSE i \in Liftable : \A j \in Liftable : i <= j)
        /\ (RuleFails /\ returns_at_once(call[3])) => ret[1] = "BR_FAILED"
        /\ (RuleFails /\ Liftable = {}) => ret[1] = "BR_FAILED"
        /\ NoSeqIteOutOfRegex

\* itos(ite(p, 0, 1)) is lifted to ite(p, itos(0), itos(1))
C19_Witness ==
    /\ call[1] = "mk_app_core.done" /\ call[3] = "itos" /\ call[5] = <<ite_i>>
    /\ ret = <<"BR_REWRITE2", mk_ite(bp, <<"itos", <<"int", 0>>>>, <<"itos", <<"int", 1>>>>)>>

\* to_re(ite(p, x, y)) is not lifted
C19_WitnessFilter ==
    /\ call[1] = "mk_app_core.done" /\ call[3] = "to_re" /\ call[5] = <<ite_s>>
    /\ ret[1] = "BR_FAILED"

\* ------------------------------------------------------- membership
\* re().max_length(r); UINT_MAX when there is no bound
RECURSIVE re_max_length(_)
re_max_length(r) ==
    LET sum(n1, n2) == IF n1 = UINT_MAX \/ n2 = UINT_MAX THEN UINT_MAX ELSE n1 + n2
        seq_max(ml) == IF ml[1] THEN ml[2] ELSE UINT_MAX
    IN  CASE Tag(r) = "re.empty" -> 0
          [] Tag(r) \in {"re.range", "re.full_char", "re.of_pred"} -> 1
          [] Tag(r) = "to_re" -> seq_max(max_length(r[2]))
          [] Tag(r) = "re.concat" -> sum(re_max_length(r[2]), re_max_length(r[3]))
          [] Tag(r) = "re.union" -> Max(re_max_length(r[2]), re_max_length(r[3]))
          [] Tag(r) = "re.inter" -> Min(re_max_length(r[2]), re_max_length(r[3]))
          [] Tag(r) = "re.opt" -> re_max_length(r[2])
          [] OTHER -> UINT_MAX

\* re().min_length(r)
re_min_length(r) == get_info(r).min_length

\* get_head_tail_reversed(s): <<found, head, tail>>
RECURSIVE get_head_tail_reversed(_)
get_head_tail_reversed(s) ==
    LET prepend(h, ht) ==
            IF ht[1] THEN <<TRUE, mk_seq_concat(h, ht[2]), ht[3]>> ELSE <<FALSE, NULL, NULL>>
    IN  IF is_unit(s) THEN <<TRUE, mk_seq_empty, s[2]>>
        ELSE IF is_string(s) /\ Len(s[2]) > 0
        THEN <<TRUE, mk_string(Front(s[2])), mk_char(Last(s[2]))>>
        ELSE IF Tag(s) = "seq.concat" THEN prepend(s[2], get_head_tail_reversed(s[3]))
        ELSE <<FALSE, NULL, NULL>>

\* get_re_head_tail(r): <<found, head, tail>>
get_re_head_tail(r) ==
    IF Tag(r) = "re.concat"
    THEN <<re_min_length(r[2]) # UINT_MAX /\ re_max_length(r[2]) = re_min_length(r[2]),
           r[2], r[3]>>
    ELSE <<FALSE, NULL, NULL>>

\* get_re_head_tail_reversed(r): <<found, head, tail>>
RECURSIVE get_re_head_tail_reversed(_)
get_re_head_tail_reversed(r) ==
    LET left(ht) ==
            IF ht[1] THEN <<TRUE, ht[2], mk_re_append(ht[3], r[3])>> ELSE <<TRUE, r[2], r[3]>>
        right(ht) ==
            IF ht[1] THEN <<TRUE, mk_re_append(r[2], ht[2]), ht[3]>> ELSE <<FALSE, NULL, NULL>>
    IN  IF Tag(r) = "re.concat"
        THEN IF re_min_length(r[3]) # UINT_MAX /\ re_max_length(r[3]) = re_min_length(r[3])
             THEN left(get_re_head_tail_reversed(r[2]))
             ELSE right(get_re_head_tail_reversed(r[3]))
        ELSE <<FALSE, NULL, NULL>>

\* mk_in_antimirov(s, d)
RECURSIVE mk_in_antimirov(_, _)
mk_in_antimirov(s, d) ==
    IF re_is_full_seq(d) \/ (str_min_length(s) > 0 /\ re_is_dot_plus(d)) THEN mk_true
    ELSE IF re_is_empty(d) \/ (str_min_length(s) > 0 /\ re_is_epsilon(d)) THEN mk_false
    ELSE IF is_ite(d)
    THEN mk_ite_simplify(d[2], mk_in_antimirov(s, d[3]), mk_in_antimirov(s, d[4]))
    ELSE IF Tag(d) = "re.union"
    THEN m_br_mk_or(mk_in_antimirov(s, d[2]), mk_in_antimirov(s, d[3]))
    ELSE <<"in_re", s, d>>

\* the rules with the operands exchanged: suffix for to_re(e) . all (mutant)
in_re_affix_swapped(a, b) ==
    IF Tag(b) = "re.concat" /\ Tag(b[2]) = "to_re" /\ re_is_full_seq(b[3])
    THEN <<TRUE, <<"suffix", b[2][2], a>>>>
    ELSE IF Tag(b) = "re.concat" /\ Tag(b[3]) = "to_re" /\ re_is_full_seq(b[2])
    THEN <<TRUE, <<"prefix", b[3][2], a>>>>
    ELSE <<FALSE, NULL>>

\* mk_str_in_regexp, the rules for to_re(e) . all and all . to_re(e):
\* <<fired, result>>
in_re_affix(a, b) ==
    IF Tag(b) = "re.concat" /\ Tag(b[2]) = "to_re" /\ re_is_full_seq(b[3])
    THEN <<TRUE, <<"prefix", b[2][2], a>>>>
    ELSE IF Tag(b) = "re.concat" /\ Tag(b[3]) = "to_re" /\ re_is_full_seq(b[2])
    THEN <<TRUE, <<"suffix", b[3][2], a>>>>
    ELSE <<FALSE, NULL>>

\* mk_str_in_regexp, the rule for opt(b1), b1 | epsilon and epsilon | b1:
\* <<fired, b1>>
in_re_optional(b) ==
    IF Tag(b) = "re.opt" THEN <<TRUE, b[2]>>
    ELSE IF Tag(b) = "re.union" /\ re_is_epsilon(b[3]) THEN <<TRUE, b[2]>>
    ELSE IF Tag(b) = "re.union" /\ re_is_epsilon(b[2]) THEN <<TRUE, b[3]>>
    ELSE <<FALSE, NULL>>

\* mk_str_in_regexp, the split of b into a head or a tail of fixed length
in_re_split(a, hd, tl, len_hd, len_tl, tail_eq) ==
    <<"and*", << <<"ge", <<"len", a>>, IF tail_eq THEN len_tl ELSE len_hd>>,
                 <<"in_re", <<"extract", a, <<"int", 0>>, len_hd>>, hd>>,
                 IF tail_eq /\ Tag(tl) = "to_re"
                 THEN mk_eq(tl[2], <<"extract", a, len_hd, len_tl>>)
                 ELSE <<"in_re", <<"extract", a, len_hd, len_tl>>, tl>> >> >>

\* mk_str_in_regexp from its loop of derivatives on. Stage "literal" takes the
\* derivatives of r by the characters w left of the literal a and reads the
\* nullability of the last one; stage "rest" is the rules after the literal
\* case; stage "head" takes the derivative of b by the first element of a.
\* Ret(<<status, result>>, cache)
RECURSIVE in_re_run(_, _, _, _, _, _)
in_re_run(S, a, b, stage, w, r) ==
    LET step(d) == in_re_run(d.s, a, b, stage, Tail(w), d.r)
        nullable(n) ==
            Ret(<<IF Tag(n.r) = "in_re" THEN "BR_DONE" ELSE "BR_REWRITE_FULL", n.r>>, n.s)
        split(ht) ==
            Ret(<<"BR_REWRITE_FULL",
                  in_re_split(a, ht[2], ht[3], <<"int", re_min_length(ht[2])>>,
                              <<"sub", <<"len", a>>, <<"int", re_min_length(ht[2])>>>>,
                              FALSE)>>, S)
        split_reversed(ht) ==
            Ret(<<"BR_REWRITE_FULL",
                  in_re_split(a, ht[2], ht[3],
                              <<"sub", <<"len", a>>, <<"int", re_min_length(ht[3])>>>>,
                              <<"int", re_min_length(ht[3])>>, TRUE)>>, S)
    IN  IF stage = "literal" /\ w # <<>> /\ re_is_empty(r)
        THEN Ret(<<"BR_DONE", mk_false>>, S)
        ELSE IF stage \in {"literal", "head"} /\ w # <<>>
        THEN step(mk_derivative(S, w[1], r))
        ELSE IF stage = "literal" /\ get_info(r).nullable = "true"
        THEN Ret(<<"BR_DONE", mk_true>>, S)
        ELSE IF stage = "literal" /\ get_info(r).nullable = "false"
        THEN Ret(<<"BR_DONE", mk_false>>, S)
        ELSE IF stage = "head"
        THEN Ret(<<"BR_REWRITE_FULL", mk_in_antimirov(get_head_tail(a)[3], r)>>, S)
        ELSE IF lift_str_from_to_re(b)[1]
        THEN Ret(<<"BR_REWRITE_FULL", mk_eq(a, lift_str_from_to_re(b)[2])>>, S)
        ELSE IF in_re_affix(a, b)[1] THEN Ret(<<"BR_REWRITE1", in_re_affix(a, b)[2]>>, S)
        ELSE IF in_re_optional(b)[1]
        THEN Ret(<<"BR_REWRITE_FULL",
                   mk_ite(mk_eq(<<"len", a>>, <<"int", 0>>), mk_true,
                          <<"in_re", a, in_re_optional(b)[2]>>)>>, S)
        ELSE IF is_seq_empty(a) THEN nullable(is_nullable(S, b))
        ELSE IF get_head_tail(a)[1]
        THEN in_re_run(S, a, b, "head", <<get_head_tail(a)[2]>>, b)
        ELSE IF get_head_tail_reversed(a)[1]
        THEN Ret(<<"BR_REWRITE_FULL",
                   <<"in_re", get_head_tail_reversed(a)[2],
                     <<"re.reverse", <<"re.derivative", get_head_tail_reversed(a)[3],
                                       <<"re.reverse", b>>>>>>>>>>, S)
        ELSE IF get_re_head_tail(b)[1] THEN split(get_re_head_tail(b))
        ELSE IF get_re_head_tail_reversed(b)[1]
        THEN split_reversed(get_re_head_tail_reversed(b))
        ELSE Ret(<<"BR_FAILED", NULL>>, S)

\* mk_str_in_regexp(a, b): Ret(<<status, result>>, cache)
mk_str_in_regexp(S, a, b) ==
    IF re_is_empty(b) THEN Ret(<<"BR_DONE", mk_false>>, S)
    ELSE IF re_is_full_seq(b) THEN Ret(<<"BR_DONE", mk_true>>, S)
    ELSE in_re_run(S, a, b,
                   IF is_string(a) /\ is_ground(b) THEN "literal" ELSE "rest",
                   IF is_string(a) /\ is_ground(b)
                   THEN [k \in 1 .. Len(a[2]) |-> mk_char(a[2][k])] ELSE <<>>,
                   b)

\* ------------------------------------------ specification: membership
InReWords == {mk_string(<<0>>), mk_string(<<0, 1>>), sy}
contains_pat(u) == <<"re.concat", re_full_seq, <<"re.concat", mk_to_re(u), re_full_seq>>>>
contains_left(u) == <<"re.concat", <<"re.concat", re_full_seq, mk_to_re(u)>>, re_full_seq>>
prefix_pat(u) == <<"re.concat", mk_to_re(u), re_full_seq>>
suffix_pat(u) == <<"re.concat", re_full_seq, mk_to_re(u)>>
InReRegexes ==
    UNION {{contains_pat(u), contains_left(u), prefix_pat(u), suffix_pat(u), mk_to_re(u)} :
              u \in InReWords}
      \cup { re_empty, re_full_seq, <<"re.opt", lit_a>>, <<"re.union", lit_a, re_epsilon>>,
             <<"re.union", re_epsilon, lit_b>>, <<"re.concat", range_ab, mk_re_star(lit_a)>>,
             <<"re.concat", mk_re_star(lit_a), range_ab>>, mk_re_star(lit_a) }
InReSeqs ==
    { sx, mk_seq_empty, mk_string(<<>>), mk_string(<<0>>), mk_string(<<0, 1>>),
      mk_string(<<1, 0>>), mk_unit(cc), <<"seq.concat", mk_unit(cc), sx>>,
      <<"seq.concat", sx, mk_unit(cc)>>, <<"seq.concat", sx, sy>> }

InReInit ==
    /\ IdleCache /\ IdleEq /\ IdleSample
    /\ \E a \in InReSeqs, b \in InReRegexes : call = <<"mk_str_in_regexp", a, b>>
    /\ ret = NULL

StrInRe ==
    /\ call[1] = "mk_str_in_regexp"
    /\ LET Return(res) ==
               /\ ret' = res.r
               /\ m_table' = res.s.table
               /\ m_trail' = res.s.trail
       IN  Return(mk_str_in_regexp(EngineCache(m_table, m_trail, FALSE, 0), call[2], call[3]))
    /\ call' = <<"mk_str_in_regexp.done", call[2], call[3]>>
    /\ UNCHANGED <<eqVars, sampleVars>>

InReNext == StrInRe
SpecInRe == InReInit /\ [][InReNext]_vars

IsPrefix(u, w) == Len(u) <= Len(w) /\ SubSeq(w, 1, Len(u)) = u
IsSuffix(u, w) == Len(u) <= Len(w) /\ SubSeq(w, Len(w) - Len(u) + 1, Len(w)) = u

\* the truth value of a result of mk_str_in_regexp that is true, false,
\* prefix(u, a) or suffix(u, a)
AffixValue(t, env) ==
    CASE Tag(t) = "true" -> TRUE
      [] Tag(t) = "false" -> FALSE
      [] Tag(t) = "prefix" -> IsPrefix(EvalSeq(t[2], env), EvalSeq(t[3], env))
      [] Tag(t) = "suffix" -> IsSuffix(EvalSeq(t[2], env), EvalSeq(t[3], env))

IsContainsPat(b) == \E u \in InReWords : b \in {contains_pat(u), contains_left(u)}
IsPrefixPat(b) == \E u \in InReWords : b = prefix_pat(u)
IsSuffixPat(b) == \E u \in InReWords : b = suffix_pat(u)

\* C20: a in all . to_re(u) . all is rewritten to contains(a, u),
\* a in to_re(u) . all to prefix(u, a), and a in all . to_re(u) to suffix(u, a).
C20_ContainsPrefixSuffix ==
    call[1] = "mk_str_in_regexp.done" =>
        /\ IsContainsPat(call[3]) =>
              \E u \in InReWords : ret[2] = <<"contains", call[2], u>>
        /\ IsPrefixPat(call[3]) => ret[2] = <<"prefix", call[3][2][2], call[2]>>
        /\ IsSuffixPat(call[3]) => ret[2] = <<"suffix", call[3][3][2], call[2]>>

\* C20 (amended): a in to_re(u) . all is rewritten to prefix(u, a) and
\* a in all . to_re(u) to suffix(u, a), with REWRITE1, unless a is a string
\* literal whose membership the derivatives decide (the result is then true or
\* false); each of these results has the truth value of the membership.
\* a in all . to_re(u) . all is never rewritten to contains(a, u): a variable
\* a is left alone (FAILED).
C20_PrefixSuffixOnly ==
    call[1] = "mk_str_in_regexp.done" =>
        /\ (IsPrefixPat(call[3]) \/ IsSuffixPat(call[3])) =>
              /\ \/ ret = <<"BR_REWRITE1",
                            IF IsPrefixPat(call[3]) THEN <<"prefix", call[3][2][2], call[2]>>
                            ELSE <<"suffix", call[3][3][2], call[2]>>>>
                 \/ is_string(call[2]) /\ ret \in {<<"BR_DONE", mk_true>>, <<"BR_DONE", mk_false>>}
              /\ \A env \in RegexEnvs({call[2], call[3]}) :
                    AffixValue(ret[2], env) <=> Matches(EvalSeq(call[2], env), call[3], env)
        /\ IsContainsPat(call[3]) =>
              /\ ret[1] = "BR_FAILED" \/ Tag(ret[2]) # "contains"
              /\ call[2] = sx => ret[1] = "BR_FAILED"

\* x in to_re("ab") . all is rewritten to prefix("ab", x)
C20_Witness ==
    /\ call = <<"mk_str_in_regexp.done", sx, prefix_pat(mk_string(<<0, 1>>))>>
    /\ ret = <<"BR_REWRITE1", <<"prefix", mk_string(<<0, 1>>), sx>>>>

\* x in all . to_re("ab") . all is left alone
C20_WitnessContains ==
    /\ call = <<"mk_str_in_regexp.done", sx, contains_pat(mk_string(<<0, 1>>))>>
    /\ ret[1] = "BR_FAILED"

\* ------------------------------------------------ character predicates
\* sym_expr: <<"Char", c>>, <<"Range", lo, hi>>, <<"Pred", fml>> with fml over
\* the variable <<"var", 0>>, <<"Not", x>>
\* sym_expr::accept(e)
RECURSIVE accept(_, _)
accept(x, e) ==
    CASE Tag(x) = "Pred" -> safe_replace(x[2], <<"var", 0>>, e)
      [] Tag(x) = "Not" -> <<"not", accept(x[2], e)>>
      [] Tag(x) = "Char" -> <<"eq", e, x[2]>>
      [] Tag(x) = "Range" ->
            IF is_const_char(x[2]) /\ is_const_char(e) /\ is_const_char(x[3])
            THEN IF x[2][2] <= e[2] /\ e[2] <= x[3][2] THEN mk_true ELSE mk_false
            ELSE <<"and", <<"le", x[2], e>>, <<"le", e, x[3]>>>>

\* sym_expr_boolean_algebra::m_var, the fresh constant
m_var == <<"cvar", "x!1">>

\* is_sat once the shortcuts have not applied; answer is what
\* m_solver.check_sat returns: <<result, the formula sent to the solver or NULL>>
is_sat_solve(fml, answer) ==
    IF fml = mk_true THEN <<"l_true", NULL>>
    ELSE IF fml = mk_false THEN <<"l_false", NULL>>
    ELSE <<answer, fml>>

\* is_sat with the shortcut taken for not Range(0, hi), hi < max_char (mutant)
is_sat_zero_lo(x, answer) ==
    IF Tag(x) = "Char" THEN <<"l_true", NULL>>
    ELSE IF Tag(x) = "Range" /\ is_const_char(x[2]) /\ is_const_char(x[3])
    THEN <<IF x[2][2] <= x[3][2] THEN "l_true" ELSE "l_false", NULL>>
    ELSE IF /\ Tag(x) = "Not" /\ Tag(x[2]) = "Range" /\ x[2][2] = <<"char", 0>>
            /\ is_const_char(x[2][3]) /\ x[2][3][2] < MaxChar
    THEN <<"l_true", NULL>>
    ELSE is_sat_solve(accept(x, m_var), answer)

\* sym_expr_boolean_algebra::is_sat(x)
is_sat(x, answer) ==
    IF Tag(x) = "Char" THEN <<"l_true", NULL>>
    ELSE IF Tag(x) = "Range" /\ is_const_char(x[2]) /\ is_const_char(x[3])
    THEN <<IF x[2][2] <= x[3][2] THEN "l_true" ELSE "l_false", NULL>>
    ELSE IF /\ Tag(x) = "Not" /\ Tag(x[2]) = "Range" /\ is_const_char(x[2][2])
            /\ 0 < x[2][2][2]
    THEN <<"l_true", NULL>>
    ELSE is_sat_solve(accept(x, m_var), answer)

\* ------------------------------------ specification: character predicates
SymChars == {<<"char", k>> : k \in Chars} \cup {<<"cvar", "c">>}
SymAtoms ==
    {<<"Char", c>> : c \in SymChars}
      \cup {<<"Range", lo, hi>> : lo \in SymChars, hi \in SymChars}
      \cup {<<"Pred", f>> : f \in {mk_true, mk_false, <<"le", <<"var", 0>>, <<"char", 1>>>>,
                                   <<"eq", <<"var", 0>>, <<"cvar", "c">>>>}}
SymExprs == SymAtoms \cup {<<"Not", x>> : x \in SymAtoms}
                     \cup {<<"Not", <<"Not", x>>>> : x \in SymAtoms}
Answers == {"l_true", "l_false", "l_undef"}

SatInit ==
    /\ IdleCache /\ IdleEq /\ IdleSample
    /\ \E x \in SymExprs, answer \in Answers : call = <<"is_sat", x, answer>>
    /\ ret = NULL

IsSat ==
    /\ call[1] = "is_sat"
    /\ ret' = is_sat(call[2], call[3])
    /\ call' = <<"is_sat.done", call[2], call[3]>>
    /\ UNCHANGED <<cacheVars, eqVars, sampleVars>>

SatNext == IsSat
SpecSat == SatInit /\ [][SatNext]_vars

\* the characters that satisfy x under the assignment env
SatChars(x, env) ==
    {ch \in Chars : EvalBool(accept(x, <<"var", 0>>), [env EXCEPT !.e = ch])}

IsConstRange(x) == Tag(x) = "Range" /\ is_const_char(x[2]) /\ is_const_char(x[3])

\* C21: is_sat is true for any Char, lo <= hi for a constant Range(lo, hi), and
\* true for not Range(0, hi) with a constant hi < MAX_CHAR, all without the
\* solver; the solver is queried only in the remaining cases.
C21_NotRangeFromZero ==
    call[1] = "is_sat.done" =>
        /\ Tag(call[2]) = "Char" => ret = <<"l_true", NULL>>
        /\ IsConstRange(call[2]) =>
              ret = <<IF call[2][2][2] <= call[2][3][2] THEN "l_true" ELSE "l_false", NULL>>
        /\ (/\ Tag(call[2]) = "Not" /\ IsConstRange(call[2][2])
            /\ call[2][2][2][2] = 0 /\ call[2][2][3][2] < max_char) =>
              ret = <<"l_true", NULL>>

\* C21 (amended): is_sat is true for any Char, lo <= hi for a constant
\* Range(lo, hi), and true for not Range(lo, hi) with a constant lo > 0, all
\* without the solver; not Range(0, hi) goes to the solver like every other
\* predicate whose acceptance formula is not the constant true or false, and
\* the result is then the solver's answer. An answer given without the solver
\* is right: true only if some character satisfies x, false only if none does.
C21_NotRangeAboveZero ==
    call[1] = "is_sat.done" =>
        /\ Tag(call[2]) = "Char" => ret = <<"l_true", NULL>>
        /\ IsConstRange(call[2]) =>
              ret = <<IF call[2][2][2] <= call[2][3][2] THEN "l_true" ELSE "l_false", NULL>>
        /\ (/\ Tag(call[2]) = "Not" /\ Tag(call[2][2]) = "Range"
            /\ is_const_char(call[2][2][2]) /\ call[2][2][2][2] > 0) =>
              ret = <<"l_true", NULL>>
        /\ (/\ Tag(call[2]) = "Not" /\ Tag(call[2][2]) = "Range"
            /\ call[2][2][2] = <<"char", 0>>) =>
              ret = <<call[3], accept(call[2], m_var)>>
        /\ ret[2] # NULL => ret[1] = call[3] /\ ret[2] \notin {mk_true, mk_false}
        /\ ret[2] = NULL =>
              \A env \in RegexEnvs({accept(call[2], <<"var", 0>>)}) :
                  (ret[1] = "l_true") <=> (SatChars(call[2], env) # {})

\* not Range(1, 2) is satisfiable, answered without the solver
C21_Witness ==
    /\ call = <<"is_sat.done", <<"Not", <<"Range", <<"char", 1>>, <<"char", 2>>>>>>, "l_undef">>
    /\ ret = <<"l_true", NULL>>

\* not Range(0, 1) is sent to the solver, whose answer is returned
C21_WitnessSolver ==
    /\ call = <<"is_sat.done", <<"Not", <<"Range", <<"char", 0>>, <<"char", 1>>>>>>, "l_undef">>
    /\ ret[1] = "l_undef" /\ ret[2] # NULL

\* ------------------------------------- specification: sampler, liveness
\* the loop of some_string_in_re takes its next iteration
SampleIterate ==
    /\ call[1] = "some_string_in_re" /\ ret = NULL /\ call[3] < MaxSteps
    /\ call' = <<"some_string_in_re", call[2], call[3] + 1>>

\* the loop is synchronous code: it keeps iterating until it returns
SpecSampleLive == SampleInit /\ [][SampleNext]_vars /\ WF_call(SampleIterate)

\* the entry on top of the worklist is a regex that was derived before
SampleRevisit ==
    /\ call[1] = "some_string_in_re" /\ ret = NULL /\ todo # <<>>
    /\ todo[Len(todo)].needs_derivation /\ todo[Len(todo)].e \in visited

\* an iteration pops the top entry and keeps the entries below it; a regex
\* that is marked is not derived again: nothing is pushed, marked or cached
SampleIteration ==
    (call[1] = "some_string_in_re" /\ ret = NULL /\ todo # <<>>) =>
        /\ Len(todo') >= Len(todo) - 1
        /\ SubSeq(todo', 1, Len(todo) - 1) = SubSeq(todo, 1, Len(todo) - 1)
        /\ visited \subseteq visited'
        /\ SampleRevisit =>
              /\ todo' = SubSeq(todo, 1, Len(todo) - 1)
              /\ visited' = visited /\ m_table' = m_table /\ ret' = NULL

\* C22: every call of some_string_in_re terminates with Some, None or Unknown;
\* each regex is derived at most once (a marked regex is skipped) and every
\* iteration pops the entry on top of the worklist.
C22_SampleTerminates ==
    /\ <>(ret \in {<<"l_true">>, <<"l_false">>, <<"l_undef">>})
    /\ [][SampleIteration]_vars

\* the search ends with None after a marked regex was met again
C22_Witness ==
    /\ call[1] = "some_string_in_re" /\ ret = <<"l_false">>
    /\ Cardinality(visited) >= 2 /\ call[3] >= 4

\* ------------------------------------------ specification: non_overlap
MaxOverlapLen == 3
\* the non-empty literals over three characters
OverlapWords == WordsOver({0, 1, 2}, MaxOverlapLen) \ {<<>>}

OverlapInit ==
    /\ IdleCache /\ IdleEq /\ IdleSample
    /\ \E p \in OverlapWords, q \in OverlapWords : call = <<"non_overlap", p, q>>
    /\ ret = NULL

NonOverlap ==
    /\ call[1] = "non_overlap"
    /\ ret' = non_overlap(<<mk_string(call[2])>>, <<mk_string(call[3])>>)
    /\ call' = <<"non_overlap.done", call[2], call[3]>>
    /\ UNCHANGED <<cacheVars, eqVars, sampleVars>>

OverlapNext == NonOverlap
SpecOverlap == OverlapInit /\ [][OverlapNext]_vars

\* p, the shorter word, overlaps q: a non-empty suffix of p is a prefix of q,
\* a non-empty prefix of p is a suffix of q, or p occurs inside q
Overlaps(p, q) ==
    \/ \E k \in 1 .. Len(p) : SubSeq(p, Len(p) - k + 1, Len(p)) = SubSeq(q, 1, k)
    \/ \E k \in 1 .. Len(p) : SubSeq(p, 1, k) = SubSeq(q, Len(q) - k + 1, Len(q))
    \/ \E j \in 0 .. Len(q) - Len(p) : SubSeq(q, j + 1, j + Len(p)) = p

\* C23: for literal strings p and q, non_overlap(p, q) is true iff no non-empty
\* suffix of p is a prefix of q, no non-empty prefix of p is a suffix of q, and
\* p does not occur inside q at any offset, p being the shorter of the two.
C23_NonOverlapExact ==
    call[1] = "non_overlap.done" =>
        (ret <=> ~(IF Len(call[2]) > Len(call[3]) THEN Overlaps(call[3], call[2])
                   ELSE Overlaps(call[2], call[3])))

\* non_overlap("ab", "bc") is true although the suffix "b" begins "bc"
C23_SuffixMissed ==
    call = <<"non_overlap.done", <<0, 1>>, <<1, 2>>>> /\ ret = TRUE

\* ------------------------------------------ specification: value clash
MaxClashLen == 3
ClashAtoms == {ua, ub, uc, sx}
ClashSides == WordsOver(ClashAtoms, MaxClashLen)

ClashInit ==
    /\ IdleCache /\ IdleEq /\ IdleSample
    /\ \E ls \in ClashSides, rs \in ClashSides : call = <<"reduce_value_clash", ls, rs>>
    /\ ret = NULL

ValueClash ==
    /\ call[1] = "reduce_value_clash"
    /\ ret' = reduce_value_clash(call[2], call[3], <<>>)
    /\ call' = <<"reduce_value_clash.done", call[2], call[3]>>
    /\ UNCHANGED <<cacheVars, eqVars, sampleVars>>

ClashNext == ValueClash
SpecClash == ClashInit /\ [][ClashNext]_vars

Count(v, t) == Cardinality({j \in 1 .. Len(v) : v[j] = t})
\* the atoms of v left once every atom that also occurs in w has been matched,
\* occurrence by occurrence
Unmatched(v, w) == {v[j] : j \in {k \in 1 .. Len(v) : Count(v, v[k]) > Count(w, v[k])}}

\* C24: reduce_value_clash returns false whenever some unmatched atom on either
\* side is a value-unit.
C24_AnyValueFails ==
    (/\ call[1] = "reduce_value_clash.done"
     /\ \E t \in Unmatched(call[2], call[3]) \cup Unmatched(call[3], call[2]) :
           is_unit_value(t)) => ~ret.ok

\* C24 (amended): reduce_value_clash returns false exactly when both sides are
\* non-empty, the left side has an unmatched atom, and every unmatched atom on
\* either side is a value-unit; the equation then has no solution, and the
\* sides are returned as they were.
C24_AllValuesFail ==
    call[1] = "reduce_value_clash.done" =>
        /\ ~ret.ok <=>
              /\ call[2] # <<>> /\ call[3] # <<>>
              /\ Unmatched(call[2], call[3]) # {}
              /\ \A t \in Unmatched(call[2], call[3]) \cup Unmatched(call[3], call[2]) :
                    is_unit_value(t)
        /\ ~ret.ok =>
              \A env \in EnvsOf({mk_concat_vec(call[2]), mk_concat_vec(call[3])}) :
                  ~EqHolds(<<mk_concat_vec(call[2]), mk_concat_vec(call[3])>>, env)
        /\ ret.ls = call[2] /\ ret.rs = call[3] /\ ret.eqs = <<>>

\* x.'a' = x.'b' is refuted
C24_Witness ==
    /\ call = <<"reduce_value_clash.done", <<sx, ua>>, <<sx, ub>>>>
    /\ ~ret.ok

\* 'a'.x = 'b'.c is not refuted: the unmatched atoms x and unit(c) are no values
C24_WitnessKept ==
    /\ call = <<"reduce_value_clash.done", <<ua, sx>>, <<ub, uc>>>>
    /\ ret.ok

\* -------------------------------------------- specification: ordered merge
MaxChain == 3
loop_a12 == <<"re.loop", lit_a, 1, 2>>
loop_a03 == <<"re.loop", lit_a, 0, 3>>
SetAtoms ==
    { lit_a, lit_b, <<"re.comp", lit_a>>, <<"re.comp", lit_b>>, loop_a12, loop_a03,
      re_dot_plus, mk_re_star(lit_b) }

\* the atoms of s in ascending order of compare
RECURSIVE SortedAtoms(_)
SortedAtoms(s) ==
    IF s = {} THEN <<>>
    ELSE LET least == CHOOSE x \in s : \A y \in s : compare(x, y) <= 0
         IN  <<least>> \o SortedAtoms(s \ {least})

\* the right-nested chain of the atoms v
RECURSIVE mk_chain(_, _)
mk_chain(kind, v) ==
    IF Len(v) = 1 THEN v[1] ELSE <<kind, v[1], mk_chain(kind, Tail(v))>>

\* the atoms of the chain r, in order
RECURSIVE chain_atoms(_, _)
chain_atoms(kind, r) ==
    IF Tag(r) = kind THEN <<r[2]>> \o chain_atoms(kind, r[3]) ELSE <<r>>

\* the atom sets that form a chain: no atom together with its complement
ChainSets ==
    {s \in SUBSET SetAtoms :
        /\ Cardinality(s) \in 1 .. MaxChain
        /\ \A x \in s, y \in s : ~are_complements(x, y)}
Chains(kind) == {mk_chain(kind, SortedAtoms(s)) : s \in ChainSets}
set_unit(kind) == IF kind = "re.union" THEN re_full_seq ELSE re_empty

SetsInit ==
    /\ IdleCache /\ IdleEq /\ IdleSample
    /\ \E k \in {"re.union", "re.inter"} : \E r1 \in Chains(k), r2 \in Chains(k) :
          call = <<"merge_regex_sets", k, r1, r2>>
    /\ ret = NULL

MergeRegexSets ==
    /\ call[1] = "merge_regex_sets"
    /\ ret' = merge_regex_sets(call[2], call[3], call[4], set_unit(call[2]))
    /\ call' = <<"merge_regex_sets.done", call[2], call[3], call[4]>>
    /\ UNCHANGED <<cacheVars, eqVars, sampleVars>>

SetsNext == MergeRegexSets
SpecSets == SetsInit /\ [][SetsNext]_vars

SeqRange(v) == {v[j] : j \in 1 .. Len(v)}
IsSortedChain(kind, r) ==
    LET v == chain_atoms(kind, r)
    IN  \A i \in 1 .. Len(v), j \in 1 .. Len(v) : i < j => compare(v[i], v[j]) = -1
ComplementPair(kind, r1, r2) ==
    \E x \in SeqRange(chain_atoms(kind, r1)), y \in SeqRange(chain_atoms(kind, r2)) :
        are_complements(x, y)
\* the language of the atom t is contained in that of r (union), contains it (inter)
Absorbed(kind, t, r) ==
    IF kind = "re.union" THEN SameLanguage(<<"re.union", t, r>>, r)
    ELSE SameLanguage(<<"re.inter", t, r>>, r)

\* C25: merge_regex_sets of two sorted duplicate-free chains is the annihilator
\* if an atom of one chain is the complement of an atom of the other, and
\* otherwise a sorted duplicate-free chain of the atoms of both chains less the
\* absorbed ones; merge(X, X) = X and merge(X, Y) = merge(Y, X).
C25_OrderedMerge ==
    call[1] = "merge_regex_sets.done" =>
        LET kind == call[2]
            X == call[3]
            Y == call[4]
            all == SeqRange(chain_atoms(kind, X)) \cup SeqRange(chain_atoms(kind, Y))
            got == SeqRange(chain_atoms(kind, ret))
        IN  /\ ComplementPair(kind, X, Y) => ret = set_unit(kind)
            /\ ~ComplementPair(kind, X, Y) =>
                  /\ IsSortedChain(kind, ret)
                  /\ got \subseteq all
                  /\ \A t \in all \ got : Absorbed(kind, t, ret)
            /\ X = Y => ret = X
            /\ ret = merge_regex_sets(kind, Y, X, set_unit(kind))

\* a.b merged with loop(a,1,2).b* for union: four atoms in order
C25_Witness ==
    /\ call = <<"merge_regex_sets.done", "re.union",
                mk_chain("re.union", SortedAtoms({lit_a, lit_b})),
                mk_chain("re.union", SortedAtoms({loop_a12, mk_re_star(lit_b)}))>>
    /\ Len(chain_atoms("re.union", ret)) = 4

\* a complement pair below the heads yields the annihilator
C25_WitnessUnit ==
    /\ call[1] = "merge_regex_sets.done" /\ call[2] = "re.inter"
    /\ Len(chain_atoms("re.inter", call[3])) = 3 /\ Len(chain_atoms("re.inter", call[4])) = 3
    /\ ~are_complements(chain_atoms("re.inter", call[3])[1], chain_atoms("re.inter", call[4])[1])
    /\ ret = re_empty

\* an atom is absorbed: loop(a,1,2) united with loop(a,0,3)
C25_WitnessAbsorbed ==
    /\ call = <<"merge_regex_sets.done", "re.union", loop_a12, loop_a03>>
    /\ ret = loop_a03

\* ------------------------------------------------ specification: is_subset
loop_a21 == <<"re.loop", lit_a, 2, 1>>
SubsetAtoms ==
    { lit_a, lit_b, re_full_seq, re_dot_plus, re_epsilon, re_full_char, mk_re_star(lit_a),
      loop_a12, loop_a03, loop_a21, mk_to_re(sx) }
SubsetHeads == {lit_a, re_full_seq, loop_a12, loop_a03}
SubsetRegexes ==
    SubsetAtoms
      \cup {<<"re.concat", x, y>> : x \in SubsetAtoms, y \in SubsetAtoms}
      \cup {<<"re.concat", x, <<"re.concat", y, z>>>> :
               x \in SubsetHeads, y \in {lit_a, lit_b, re_full_seq}, z \in SubsetHeads}
      \cup {<<"re.comp", x>> : x \in SubsetAtoms}
      \cup {<<"re.comp", <<"re.concat", x, y>>>> : x \in SubsetHeads, y \in SubsetHeads}

SubsetInit ==
    /\ IdleCache /\ IdleEq /\ IdleSample
    /\ \E r1 \in SubsetRegexes, r2 \in SubsetRegexes : call = <<"is_subset", r1, r2>>
    /\ ret = NULL

IsSubset ==
    /\ call[1] = "is_subset"
    /\ ret' = is_subset(call[2], call[3])
    /\ call' = <<"is_subset.done", call[2], call[3]>>
    /\ UNCHANGED <<cacheVars, eqVars, sampleVars>>

SubsetNext == IsSubset
SpecSubset == SubsetInit /\ [][SubsetNext]_vars

LanguageIncluded(r1, r2) ==
    \A env \in RegexEnvs({r1, r2}) : \A w \in WordsOver({0, 1}, MaxWordLen) :
        Matches(w, r1, env) => Matches(w, r2, env)

\* C26: whenever is_subset(r1, r2) returns true, every word of L(r1) is in
\* L(r2).
C26_SubsetSound ==
    (call[1] = "is_subset.done" /\ ret = TRUE) => LanguageIncluded(call[2], call[3])

\* a.b.loop(a,1,2) is found inside a.b.loop(a,0,3): matching heads, then the
\* loop bounds
C26_Witness ==
    /\ call = <<"is_subset.done", <<"re.concat", lit_a, <<"re.concat", lit_b, loop_a12>>>>,
                <<"re.concat", lit_a, <<"re.concat", lit_b, loop_a03>>>>>>
    /\ ret = TRUE

\* complement duality: not loop(a,0,3) is inside not loop(a,1,2)
C26_WitnessComplement ==
    /\ call = <<"is_subset.done", <<"re.comp", loop_a03>>, <<"re.comp", loop_a12>>>>
    /\ ret = TRUE

\* a leading Sigma* of r2 is stripped against a concat r1
C26_WitnessStrip ==
    /\ call = <<"is_subset.done", <<"re.concat", lit_a, <<"re.concat", re_full_seq, lit_a>>>>,
                <<"re.concat", re_full_seq, lit_a>>>>
    /\ ret = TRUE

\* ------------------------------------------ specification: BDD combination
ge_v(n) == <<"le", mk_char(n), v0>>
DerConds == {le_v(0), le_v(1), ge_v(1), ge_v(2)}
DerLeaves == {re_empty, re_epsilon, mk_re_star(lit_a), lit_b}
\* ite-BDDs in normal form: the condition ids decrease towards the leaves
DerBdds ==
    {mk_ite(c, x, y) : c \in DerConds, x \in DerLeaves, y \in DerLeaves \ {re_empty}}
      \cup {mk_ite(c[1], mk_ite(c[2], lit_b, re_empty), z) :
               c \in {d \in DerConds \X DerConds : id_lt(get_id(d[2]), get_id(d[1]))},
               z \in {re_epsilon, re_empty}}
      \cup {mk_ite(c[1], z, mk_ite(c[2], re_epsilon, lit_b)) :
               c \in {d \in DerConds \X DerConds : id_lt(get_id(d[2]), get_id(d[1]))},
               z \in {mk_re_star(lit_a)}}

DerOpInit ==
    /\ IdleCache /\ IdleEq /\ IdleSample
    /\ \E k \in EngineOps, a \in DerBdds, b \in DerBdds : call = <<"der_op", k, a, b>>
    /\ ret = NULL

DerOp ==
    /\ call[1] = "der_op"
    /\ ret' = mk_der_op(FreshCache, call[2], call[3], call[4]).r
    /\ call' = <<"der_op.done", call[2], call[3], call[4]>>
    /\ UNCHANGED <<cacheVars, eqVars, sampleVars>>

DerOpNext == DerOp
SpecDerOp == DerOpInit /\ [][DerOpNext]_vars

\* the leaf of the ite-BDD t that the conditions select under env
RECURSIVE SelectLeaf(_, _)
SelectLeaf(t, env) ==
    IF is_ite(t)
    THEN IF EvalBool(t[2], env) THEN SelectLeaf(t[3], env) ELSE SelectLeaf(t[4], env)
    ELSE t

\* the conditions of the ite-BDD t
RECURSIVE BddConds(_)
BddConds(t) ==
    IF is_ite(t) THEN {t[2]} \cup BddConds(t[3]) \cup BddConds(t[4]) ELSE {}

OpTerm(k, a, b) ==
    CASE k = "OP_RE_UNION" -> <<"re.union", a, b>>
      [] k = "OP_RE_INTERSECT" -> <<"re.inter", a, b>>
      [] k = "OP_RE_CONCAT" -> <<"re.concat", a, b>>

CharEnvs == RegexEnvs({v0})

\* C27: for every character, the leaf that the conditions of mk_der_op(k, a, b)
\* select has the language of k applied to the leaves selected in a and in b,
\* and pred_implies(p, q) holds only if every character satisfying p satisfies
\* q, for the conditions of a and b and their negations.
C27_LeafSelection ==
    call[1] = "der_op.done" =>
        /\ \A env \in CharEnvs :
              /\ ~is_ite(SelectLeaf(ret, env))
              /\ \A w \in WordsOver({0, 1}, MaxWordLen) :
                    Matches(w, SelectLeaf(ret, env), env)
                      <=> Matches(w, OpTerm(call[2], SelectLeaf(call[3], env),
                                            SelectLeaf(call[4], env)), env)
        /\ LET cs == BddConds(call[3]) \cup BddConds(call[4])
               ps == cs \cup {mk_not(c) : c \in cs}
           IN  \A p \in ps, q \in ps :
                   pred_implies(p, q) =>
                       \A env \in CharEnvs : EvalBool(p, env) => EvalBool(q, env)

\* the union of two BDDs whose conditions exclude each other: 2 <= v implies
\* not v <= 1, so the then-branch is combined with the else-branch alone
C27_Witness ==
    /\ call = <<"der_op.done", "OP_RE_UNION", mk_ite(le_v(1), lit_b, re_epsilon),
                mk_ite(ge_v(2), mk_re_star(lit_a), lit_b)>>
    /\ is_ite(ret) /\ ret[2] = ge_v(2)
    /\ ~is_ite(ret[3])
    /\ is_ite(ret[4]) /\ ret[4][2] = le_v(1)

\* ------------------------------------------ specification: range conjuncts
MaxConj == 3
range_and(elem, lo, hi) == mk_and(<<"le", mk_char(lo), elem>>, <<"le", elem, mk_char(hi)>>)
\* the constant range constraints on elem that are one conjunct each
RangeAtoms(elem) ==
    UNION {{<<"le", elem, mk_char(k)>>, <<"le", mk_char(k), elem>>} : k \in Chars}
      \cup {mk_not(range_and(elem, lh[1], lh[2])) : lh \in Intervals}
      \cup {<<"eq", elem, mk_char(1)>>, mk_not(range_and(elem, 1, 0))}

RangesInit ==
    /\ IdleCache /\ IdleEq /\ IdleSample
    /\ \E elem \in {v0, cc}, n \in 1 .. MaxConj : \E cs \in [1 .. n -> RangeAtoms(elem)] :
          /\ elem = cc => n < MaxConj
          /\ call = <<"elim_ranges", elem, mk_and_vec(cs)>>
    /\ ret = NULL

ElimRanges ==
    /\ call[1] = "elim_ranges"
    /\ ret' = elim_condition(call[2], call[3])
    /\ call' = <<"elim_ranges.done", call[2], call[3]>>
    /\ UNCHANGED <<cacheVars, eqVars, sampleVars>>

RangesNext == ElimRanges
SpecRanges == RangesInit /\ [][RangesNext]_vars

ClosedEnv == CHOOSE env \in RegexEnvs({mk_true}) : TRUE
\* the characters that satisfy every conjunct of cs when elem has their value
SatisfyingChars(elem, cs) ==
    {ch \in Chars :
        \A i \in 1 .. Len(cs) : EvalBool(safe_replace(cs[i], elem, mk_char(ch)), ClosedEnv)}
\* the characters of the intervals rs
IntervalChars(rs) == {ch \in Chars : \E i \in 1 .. Len(rs) : rs[i][1] <= ch /\ ch <= rs[i][2]}
SortedDisjoint(rs) ==
    /\ \A i \in 1 .. Len(rs) : 0 <= rs[i][1] /\ rs[i][1] <= rs[i][2] /\ rs[i][2] <= max_char
    /\ \A i \in 1 .. Len(rs), k \in 1 .. Len(rs) : i < k => rs[i][2] < rs[k][1]
\* the interval list after the first j conjuncts of cs
RangesAfter(elem, cs, j) ==
    elim_scan(elem, SubSeq(cs, 1, j), 1, <<<<0, max_char>>>>, <<>>).ranges

\* C28: for a conjunction of constant range constraints on e, possibly negated,
\* the interval list of elim_condition is sorted, pairwise disjoint and holds
\* exactly the characters of [0, max_char] that satisfy the conjuncts processed
\* so far, after every step; the condition becomes false iff no character
\* satisfies the conjunction.
C28_RangesExact ==
    call[1] = "elim_ranges.done" =>
        LET elem == call[2]
            cs == flatten_and(call[3])
        IN  /\ \A j \in 0 .. Len(cs) :
                  /\ SortedDisjoint(RangesAfter(elem, cs, j))
                  /\ IntervalChars(RangesAfter(elem, cs, j))
                       = SatisfyingChars(elem, SubSeq(cs, 1, j))
            /\ (ret = mk_false) <=> (SatisfyingChars(elem, cs) = {})

\* not(1 <= e <= 1) and e <= 1 and not(0 <= e <= 0): two intervals after the
\* first conjunct, none at the end
C28_Witness ==
    /\ call = <<"elim_ranges.done", v0,
                mk_and_vec(<<mk_not(range_and(v0, 1, 1)), <<"le", v0, mk_char(1)>>,
                             mk_not(range_and(v0, 0, 0))>>)>>
    /\ Len(RangesAfter(v0, flatten_and(call[3]), 1)) = 2
    /\ ret = mk_false

\* a satisfiable conjunction is kept
C28_WitnessKept ==
    /\ call[1] = "elim_ranges.done" /\ call[2] = v0
    /\ Len(flatten_and(call[3])) = 3
    /\ Len(RangesAfter(v0, flatten_and(call[3]), 3)) = 2
    /\ ret # mk_false

\* ------------------------------------------------------ length comparison
\* obj_map<expr, unsigned> mults: ++mults[x]
mults_inc(mults, x) ==
    IF x \in DOMAIN mults THEN [mults EXCEPT ![x] = @ + 1] ELSE mults @@ (x :> 1)
\* --mults[x], erased at 0
mults_dec(mults, x) ==
    IF mults[x] = 1 THEN [y \in DOMAIN mults \ {x} |-> mults[y]]
    ELSE [mults EXCEPT ![x] = @ - 1]

\* compare_lengths' first loop
RECURSIVE compare_count_a(_, _, _, _)
compare_count_a(as, i, units_a, mults) ==
    IF i > Len(as) THEN [units_a |-> units_a, mults |-> mults]
    ELSE IF is_unit(as[i]) THEN compare_count_a(as, i + 1, units_a + 1, mults)
    ELSE compare_count_a(as, i + 1, units_a, mults_inc(mults, as[i]))

\* compare_lengths' second loop
RECURSIVE compare_count_b(_, _, _, _, _)
compare_count_b(bs, i, units_b, mults, b_has_foreign) ==
    IF i > Len(bs) THEN [units_b |-> units_b, mults |-> mults, b_has_foreign |-> b_has_foreign]
    ELSE IF is_unit(bs[i]) THEN compare_count_b(bs, i + 1, units_b + 1, mults, b_has_foreign)
    ELSE IF bs[i] \in DOMAIN mults
    THEN compare_count_b(bs, i + 1, units_b, mults_dec(mults, bs[i]), b_has_foreign)
    ELSE compare_count_b(bs, i + 1, units_b, mults, TRUE)

\* compare_lengths without the test for foreign atoms of bs (mutant)
compare_lengths_any_foreign(as, bs) ==
    LET a == compare_count_a(as, 1, 0, EmptyTable)
        b == compare_count_b(bs, 1, 0, a.mults, FALSE)
    IN  IF a.units_a > b.units_b THEN "longer_c"
        ELSE IF a.units_a = b.units_b /\ DOMAIN b.mults = {} THEN "same_length_c"
        ELSE IF b.units_b > a.units_a /\ DOMAIN b.mults = {} THEN "shorter_c"
        ELSE "unknown_c"

\* compare_lengths(as, bs)
compare_lengths(as, bs) ==
    LET a == compare_count_a(as, 1, 0, EmptyTable)
        b == compare_count_b(bs, 1, 0, a.mults, FALSE)
    IN  IF a.units_a > b.units_b /\ ~b.b_has_foreign THEN "longer_c"
        ELSE IF a.units_a = b.units_b /\ ~b.b_has_foreign /\ DOMAIN b.mults = {}
        THEN "same_length_c"
        ELSE IF b.units_b > a.units_a /\ DOMAIN b.mults = {} THEN "shorter_c"
        ELSE "unknown_c"

\* ---------------------------------------- specification: length comparison
MaxCmpLen == 3
CmpVars == {sx, sy}
CmpSides == WordsOver({ua, uc} \cup CmpVars, MaxCmpLen)

CompareInit ==
    /\ IdleCache /\ IdleEq /\ IdleSample
    /\ \E as \in CmpSides, bs \in CmpSides : call = <<"compare_lengths", as, bs>>
    /\ ret = NULL

CompareLengths ==
    /\ call[1] = "compare_lengths"
    /\ ret' = compare_lengths(call[2], call[3])
    /\ call' = <<"compare_lengths.done", call[2], call[3]>>
    /\ UNCHANGED <<cacheVars, eqVars, sampleVars>>

CompareNext == CompareLengths
SpecCompare == CompareInit /\ [][CompareNext]_vars

\* the lengths the non-unit atoms may have
LengthsOf == [CmpVars -> 0 .. MaxVarLen]
\* the length of the concatenation of v when the non-unit atoms have the lengths f
RECURSIVE LengthUnder(_, _)
LengthUnder(v, f) ==
    IF v = <<>> THEN 0
    ELSE (IF is_unit(v[1]) THEN 1 ELSE f[v[1]]) + LengthUnder(Tail(v), f)

\* C29: compare_lengths(as, bs) returns shorter_c, same_length_c or longer_c
\* only when |as| < |bs|, |as| = |bs| or |as| > |bs| holds for all lengths of
\* the non-unit atoms, and unknown_c otherwise.
C29_CompareSound ==
    call[1] = "compare_lengths.done" =>
        /\ ret \in {"shorter_c", "same_length_c", "longer_c", "unknown_c"}
        /\ ret = "shorter_c" =>
              \A f \in LengthsOf : LengthUnder(call[2], f) < LengthUnder(call[3], f)
        /\ ret = "same_length_c" =>
              \A f \in LengthsOf : LengthUnder(call[2], f) = LengthUnder(call[3], f)
        /\ ret = "longer_c" =>
              \A f \in LengthsOf : LengthUnder(call[2], f) > LengthUnder(call[3], f)

\* x.'a'.x against x.x.unit(c): the same length, x counted twice
C29_Witness ==
    /\ call = <<"compare_lengths.done", <<sx, ua, sx>>, <<sx, sx, uc>>>>
    /\ ret = "same_length_c"

\* 'a'.x.y is longer than y.x; x is shorter than 'a'.y.x
C29_WitnessLonger ==
    /\ call = <<"compare_lengths.done", <<ua, sx, sy>>, <<sy, sx>>>>
    /\ ret = "longer_c"

\* a third occurrence of x in bs is foreign: nothing is known
C29_WitnessUnknown ==
    /\ call = <<"compare_lengths.done", <<ua, sx>>, <<sx, sx>>>>
    /\ ret = "unknown_c"

\* ------------------------------------------------- sampler, exclusions
InInterval(ch, iv) == iv[1] <= ch /\ ch <= iv[2]
\* the iteration takes a worklist entry that is deciding the case of a
\* derivative and appends a character to the word
AppendsUnderExclusion ==
    /\ todo # <<>>
    /\ ~todo[Len(todo)].needs_derivation
    /\ Len(str') = todo[Len(todo)].str_len + 1
\* the iteration abandons a ground leaf: nothing is appended, nothing pushed
AbandonsLeaf ==
    /\ todo # <<>>
    /\ ~todo[Len(todo)].needs_derivation
    /\ LET r == todo[Len(todo)].e
       IN  ~re_is_empty(r) /\ Tag(r) # "re.union" /\ ~is_ite(r) /\ is_ground(r)
    /\ todo' = SubSeq(todo, 1, Len(todo) - 1)

SampleExclusion ==
    /\ AppendsUnderExclusion =>
          \A j \in 1 .. Len(todo[Len(todo)].exclude) :
              ~InInterval(str'[Len(str')], todo[Len(todo)].exclude[j])
    /\ AbandonsLeaf =>
          \A ch \in Chars :
              \E j \in 1 .. Len(todo[Len(todo)].exclude) :
                  InInterval(ch, todo[Len(todo)].exclude[j])

\* the range 0..1 without the word "0": the low bound 0 of the inner condition
\* v <= 1 is appended under the exclusion of 0, and the word "0" is returned
C30_LowExcluded ==
    /\ call[1] = "some_string_in_re"
    /\ call[2] = <<"re.inter", mk_re_comp(lit_a), range_ab>>
    /\ str = <<0>>
    /\ ret = <<"l_true">>

\* C30: every character some_string_in_re appends lies outside the exclusion
\* intervals of the worklist entry it is processing, for the low bound of a
\* then-branch as for the character chosen at a ground leaf, and a ground leaf
\* is abandoned only if every character is excluded.
C30_OutsideExclusions == [][SampleExclusion]_vars

\* ------------------------------------------- specification: cache alone
\* The keys and results the cache is exercised with.
CacheOps == {"OP_RE_DERIVATIVE", "_OP_RE_IS_NULLABLE"}
CacheTerms == {<<"re.empty">>, <<"re.full_seq">>}
CacheArgs == {<<"true">>, NULL}

CacheInit ==
    /\ IdleCache /\ IdleEq /\ IdleSample
    /\ call = NoCall /\ ret = NULL

CacheFind(op, a, b, c) ==
    /\ call' = <<"find", op, a, b, c>>
    /\ ret' = op_cache_find(TheCache, op, a, b, c)
    /\ UNCHANGED <<cacheVars, eqVars, sampleVars>>

\* every caller inserts only after find returned nullptr for the same key
CacheInsert(op, a, b, c, r) ==
    /\ op_cache_find(TheCache, op, a, b, c) = NULL
    /\ LET S == op_cache_insert(TheCache, op, a, b, c, r)
       IN  m_table' = S.table /\ m_trail' = S.trail
    /\ call' = <<"insert", op, a, b, c, Cardinality(DOMAIN m_table) >= MaxCache>>
    /\ ret' = r
    /\ UNCHANGED <<eqVars, sampleVars>>

CacheNext ==
    \/ \E op \in CacheOps, a \in CacheTerms, c \in CacheArgs :
          CacheFind(op, NULL, a, c)
    \/ \E op \in CacheOps, a \in CacheTerms, c \in CacheArgs, r \in CacheTerms :
          CacheInsert(op, NULL, a, c, r)

SpecCache == CacheInit /\ [][CacheNext]_vars

\* C7: the table never holds more than MAX_CACHE entries, and an insert
\* issued while |table| >= MAX_CACHE clears the table and the trail
\* completely, both together, and only then adds the new entry: afterwards
\* the table holds exactly the new entry and the trail exactly its pins.
C7_Bounded == Cardinality(DOMAIN m_table) <= MaxCache

C7_OverflowStep ==
    LET k == <<call'[2], call'[3], call'[4], call'[5]>>
        pins == SelectSeq(<<call'[3], call'[4], call'[5], ret'>>, LAMBDA t : t # NULL)
    IN
    /\ (call'[1] = "insert" /\ Cardinality(DOMAIN m_table) >= MaxCache)
          => (DOMAIN m_table' = {k} /\ m_table'[k] = ret' /\ m_trail' = pins)
    /\ (call'[1] = "insert" /\ Cardinality(DOMAIN m_table) < MaxCache)
          => (/\ DOMAIN m_table' = DOMAIN m_table \cup {k}
              /\ m_table'[k] = ret'
              /\ \A q \in DOMAIN m_table \ {k} : m_table'[q] = m_table[q]
              /\ m_trail' = m_trail \o pins)
    /\ call'[1] = "find" => (m_table' = m_table /\ m_trail' = m_trail)

C7_CacheCap == [](C7_Bounded) /\ [][C7_OverflowStep]_vars

\* an insert has just overflowed (call[6] records that cleanup reset the
\* cache, the "Op cache reset!" trace): the table now holds one entry
C7_Witness ==
    /\ call[1] = "insert"
    /\ call[6]
    /\ Cardinality(DOMAIN m_table) = 1
    /\ Len(m_trail) <= 3

====
